---- MODULE Spec2Model ----
(***************************************************************************)
(* Semantic field mapping, deck analysis and the server operations of     *)
(* anki-kashikoi-mcp.                                                      *)
(*                                                                         *)
(* Strings whose characters the code inspects (field names, keywords,      *)
(* card texts) are sequences of one-character strings; a character outside *)
(* ASCII is written as its code point ("U+8868").  Semantic labels, deck   *)
(* names and note type names are only compared for equality and are plain  *)
(* strings.  A JavaScript Record is the sequence of its <<key, value>>     *)
(* entries in iteration (insertion) order.  A nullable value is a sequence *)
(* of length 0 (null / undefined) or 1.  Confidences are scaled by ten     *)
(* (1.0 is 10, 0.8 is 8, 0.6 is 6, 0.3 is 3).                              *)
(***************************************************************************)
EXTENDS Integers, Sequences, FiniteSets, TLC

(***************************************************************************)
(* Bounds of the model.                                                    *)
(***************************************************************************)
MaxFields == 3
MaxMapping == 2
MaxContent == 3

(***************************************************************************)
(* String primitives of the JavaScript runtime.                            *)
(***************************************************************************)
UpperToLower ==
  [c \in {"A","B","C","D","E","F","G","H","I","J","K","L","M","N","O","P","Q",
          "R","S","T","U","V","W","X","Y","Z"} |->
     CASE c = "A" -> "a" [] c = "B" -> "b" [] c = "C" -> "c" [] c = "D" -> "d"
       [] c = "E" -> "e" [] c = "F" -> "f" [] c = "G" -> "g" [] c = "H" -> "h"
       [] c = "I" -> "i" [] c = "J" -> "j" [] c = "K" -> "k" [] c = "L" -> "l"
       [] c = "M" -> "m" [] c = "N" -> "n" [] c = "O" -> "o" [] c = "P" -> "p"
       [] c = "Q" -> "q" [] c = "R" -> "r" [] c = "S" -> "s" [] c = "T" -> "t"
       [] c = "U" -> "u" [] c = "V" -> "v" [] c = "W" -> "w" [] c = "X" -> "x"
       [] c = "Y" -> "y" [] c = "Z" -> "z"]

\* String.prototype.toLowerCase
toLowerCase(s) ==
  [i \in 1..Len(s) |-> IF s[i] \in DOMAIN UpperToLower THEN UpperToLower[s[i]] ELSE s[i]]

\* String.prototype.includes
includes(s, sub) ==
  \E i \in 0..(Len(s) - Len(sub)) : SubSeq(s, i + 1, i + Len(sub)) = sub

WhiteSpace == {" ", "\t", "\n", "\r"}

\* String.prototype.trim
RECURSIVE trimStart(_)
trimStart(s) ==
  IF s # <<>> /\ Head(s) \in WhiteSpace THEN trimStart(Tail(s)) ELSE s

RECURSIVE trimEnd(_)
trimEnd(s) ==
  IF s # <<>> /\ s[Len(s)] \in WhiteSpace THEN trimEnd(SubSeq(s, 1, Len(s) - 1)) ELSE s

trim(s) == trimEnd(trimStart(s))

\* Math.max
Max(a, b) == IF a > b THEN a ELSE b

\* Math.min
Min(a, b) == IF a < b THEN a ELSE b

(***************************************************************************)
(* JavaScript Records (plain objects with string keys).                    *)
(***************************************************************************)
RecHas(rec, k) == \E i \in 1..Len(rec) : rec[i][1] = k

\* rec[k]: <<>> when the key is absent (undefined), else <<value>>
RecGet(rec, k) ==
  IF RecHas(rec, k) THEN <<rec[CHOOSE i \in 1..Len(rec) : rec[i][1] = k][2]>> ELSE <<>>

\* rec[k] = v: an existing key keeps its position, a new key goes last
RecSet(rec, k, v) ==
  IF RecHas(rec, k)
  THEN [i \in 1..Len(rec) |-> IF rec[i][1] = k THEN <<k, v>> ELSE rec[i]]
  ELSE Append(rec, <<k, v>>)

\* Object.keys
Keys(rec) == [i \in 1..Len(rec) |-> rec[i][1]]

\* truthiness of a nullable string: neither null/undefined nor ''
Truthy(opt) == opt # <<>> /\ opt[1] # <<>>

Range(seq) == {seq[i] : i \in 1..Len(seq)}

(***************************************************************************)
(* FieldMapper                                                             *)
(***************************************************************************)
patterns ==
  <<
     [semantic |-> "primary", keywords |-> <<
        <<"f","r","o","n","t">>,
        <<"q","u","e","s","t","i","o","n">>,
        <<"w","o","r","d">>,
        <<"t","e","r","m">>,
        <<"k","a","n","j","i">>,
        <<"U+8868">>,
        <<"U+554F","U+984C">> >>],
     [semantic |-> "secondary", keywords |-> <<
        <<"b","a","c","k">>,
        <<"a","n","s","w","e","r">>,
        <<"m","e","a","n","i","n","g">>,
        <<"d","e","f","i","n","i","t","i","o","n">>,
        <<"U+88CF">>,
        <<"U+7B54","U+3048">> >>],
     [semantic |-> "reading", keywords |-> <<
        <<"r","e","a","d","i","n","g">>,
        <<"p","r","o","n","u","n","c","i","a","t","i","o","n">>,
        <<"p","h","o","n","e","t","i","c">>,
        <<"k","a","n","a">>,
        <<"U+8AAD","U+307F">>,
        <<"U+767A","U+97F3">> >>],
     [semantic |-> "example", keywords |-> <<
        <<"e","x","a","m","p","l","e">>,
        <<"s","e","n","t","e","n","c","e">>,
        <<"u","s","a","g","e">>,
        <<"c","o","n","t","e","x","t">>,
        <<"U+4F8B","U+6587">>,
        <<"U+4F7F","U+7528","U+4F8B">> >>],
     [semantic |-> "notes", keywords |-> <<
        <<"n","o","t","e","s">>,
        <<"m","e","m","o">>,
        <<"h","i","n","t">>,
        <<"e","x","t","r","a">>,
        <<"r","e","m","a","r","k","s">>,
        <<"U+30E1","U+30E2">>,
        <<"U+30D2","U+30F3","U+30C8">> >>],
     [semantic |-> "source", keywords |-> <<
        <<"s","o","u","r","c","e">>,
        <<"r","e","f","e","r","e","n","c","e">>,
        <<"o","r","i","g","i","n">>,
        <<"U+51FA","U+5178">>,
        <<"U+53C2","U+8003">> >>],
     [semantic |-> "image", keywords |-> <<
        <<"i","m","a","g","e">>,
        <<"p","i","c","t","u","r","e">>,
        <<"p","h","o","t","o">>,
        <<"v","i","s","u","a","l">>,
        <<"U+753B","U+50CF">>,
        <<"U+5199","U+771F">> >>],
     [semantic |-> "audio", keywords |-> <<
        <<"a","u","d","i","o">>,
        <<"s","o","u","n","d">>,
        <<"v","o","i","c","e">>,
        <<"U+97F3","U+58F0">> >>],
     [semantic |-> "category", keywords |-> <<
        <<"c","a","t","e","g","o","r","y">>,
        <<"t","y","p","e">>,
        <<"c","l","a","s","s">>,
        <<"g","r","o","u","p">>,
        <<"U+5206","U+985E">>,
        <<"U+30AB","U+30C6","U+30B4","U+30EA">> >>],
     [semantic |-> "difficulty", keywords |-> <<
        <<"d","i","f","f","i","c","u","l","t","y">>,
        <<"l","e","v","e","l">>,
        <<"g","r","a","d","e">>,
        <<"U+96E3","U+6613","U+5EA6">>,
        <<"U+30EC","U+30D9","U+30EB">> >>]
  >>

ExactConfidence == 10
ContainsConfidence == 8
ContainedConfidence == 6
FallbackConfidence == 3
FirstPassThreshold == 8
SecondPassThreshold == 5

\* the keyword loop of findBestFieldMatch for one field, from keyword k on;
\* an exact match ends the loop
RECURSIVE keywordLoop(_, _, _, _)
keywordLoop(fieldLower, keywords, k, confidence) ==
  IF k > Len(keywords) THEN confidence
  ELSE LET keywordLower == toLowerCase(keywords[k]) IN
       IF fieldLower = keywordLower
       THEN ExactConfidence
       ELSE IF includes(fieldLower, keywordLower) /\ Len(keywordLower) > 2
       THEN keywordLoop(fieldLower, keywords, k + 1, Max(confidence, ContainsConfidence))
       ELSE IF /\ includes(keywordLower, fieldLower)
               /\ Len(fieldLower) >= 4
               /\ Len(keywordLower) - Len(fieldLower) <= 3
       THEN keywordLoop(fieldLower, keywords, k + 1, Max(confidence, ContainedConfidence))
       ELSE keywordLoop(fieldLower, keywords, k + 1, confidence)

\* mutant: a later field of equal confidence replaces the earlier one
RECURSIVE fieldLoopLastWins(_, _, _, _, _, _)
fieldLoopLastWins(fields, keywords, usedFields, i, bestField, bestConfidence) ==
  IF i > Len(fields) THEN [field |-> bestField, confidence |-> bestConfidence]
  ELSE IF fields[i] \in usedFields
  THEN fieldLoopLastWins(fields, keywords, usedFields, i + 1, bestField, bestConfidence)
  ELSE LET confidence == keywordLoop(toLowerCase(fields[i]), keywords, 1, 0) IN
       IF confidence > 0 /\ confidence >= bestConfidence
       THEN fieldLoopLastWins(fields, keywords, usedFields, i + 1, <<fields[i]>>, confidence)
       ELSE fieldLoopLastWins(fields, keywords, usedFields, i + 1, bestField, bestConfidence)

\* the field loop of findBestFieldMatch, from field i on
RECURSIVE fieldLoop(_, _, _, _, _, _)
fieldLoop(fields, keywords, usedFields, i, bestField, bestConfidence) ==
  IF i > Len(fields) THEN [field |-> bestField, confidence |-> bestConfidence]
  ELSE IF fields[i] \in usedFields
  THEN fieldLoop(fields, keywords, usedFields, i + 1, bestField, bestConfidence)
  ELSE LET confidence == keywordLoop(toLowerCase(fields[i]), keywords, 1, 0) IN
       IF confidence > bestConfidence
       THEN fieldLoop(fields, keywords, usedFields, i + 1, <<fields[i]>>, confidence)
       ELSE fieldLoop(fields, keywords, usedFields, i + 1, bestField, bestConfidence)

\* mutant: the used fields are not left out
findBestFieldMatchAmongAll(fields, keywords, usedFields) ==
  fieldLoop(fields, keywords, {}, 1, <<>>, 0)

findBestFieldMatch(fields, keywords, usedFields) ==
  fieldLoop(fields, keywords, usedFields, 1, <<>>, 0)

\* one pass of suggestMappings over the patterns from pattern p on; the
\* second pass (skipMapped) leaves out a pattern that already has a mapping
RECURSIVE mappingPass(_, _, _, _, _, _)
mappingPass(fields, threshold, skipMapped, p, mappings, usedFields) ==
  IF p > Len(patterns) THEN [mappings |-> mappings, usedFields |-> usedFields]
  ELSE IF skipMapped /\ Truthy(RecGet(mappings, patterns[p].semantic))
  THEN mappingPass(fields, threshold, skipMapped, p + 1, mappings, usedFields)
  ELSE LET bestMatch == findBestFieldMatch(fields, patterns[p].keywords, usedFields) IN
       IF Truthy(bestMatch.field) /\ bestMatch.confidence > threshold
       THEN mappingPass(fields, threshold, skipMapped, p + 1,
                        RecSet(mappings, patterns[p].semantic, bestMatch.field[1]),
                        usedFields \cup {bestMatch.field[1]})
       ELSE mappingPass(fields, threshold, skipMapped, p + 1, mappings, usedFields)

\* mutant: 'secondary' needs a third field
mappingFallbackOffByOne(fields, st) ==
  LET m1 == IF ~Truthy(RecGet(st.mappings, "primary")) /\ Len(fields) > 0
               /\ fields[1] \notin st.usedFields
            THEN [mappings |-> RecSet(st.mappings, "primary", fields[1]),
                  usedFields |-> st.usedFields \cup {fields[1]}]
            ELSE st
  IN IF ~Truthy(RecGet(m1.mappings, "secondary")) /\ Len(fields) > 2
        /\ fields[2] \notin m1.usedFields
     THEN RecSet(m1.mappings, "secondary", fields[2])
     ELSE m1.mappings

\* mutant: the fallback takes the first unused field, as getSuggestionDetails does
mappingFallbackFirstUnused(fields, st) ==
  LET unused(u) == {i \in 1..Len(fields) : fields[i] \notin u}
      first(u) == fields[CHOOSE i \in unused(u) : \A j \in unused(u) : i <= j]
      m1 == IF ~Truthy(RecGet(st.mappings, "primary")) /\ unused(st.usedFields) # {}
            THEN [mappings |-> RecSet(st.mappings, "primary", first(st.usedFields)),
                  usedFields |-> st.usedFields \cup {first(st.usedFields)}]
            ELSE st
  IN IF ~Truthy(RecGet(m1.mappings, "secondary")) /\ unused(m1.usedFields) # {}
     THEN RecSet(m1.mappings, "secondary", first(m1.usedFields))
     ELSE m1.mappings

\* mutant: the fallback does not look whether the field is used
mappingFallbackTakesUsed(fields, st) ==
  LET m1 == IF ~Truthy(RecGet(st.mappings, "primary")) /\ Len(fields) > 0
            THEN [mappings |-> RecSet(st.mappings, "primary", fields[1]),
                  usedFields |-> st.usedFields \cup {fields[1]}]
            ELSE st
  IN IF ~Truthy(RecGet(m1.mappings, "secondary")) /\ Len(fields) > 1
     THEN RecSet(m1.mappings, "secondary", fields[2])
     ELSE m1.mappings

\* the fallback of suggestMappings: fields[0] for 'primary', fields[1] for
\* 'secondary' (sequences are 1-based here)
mappingFallback(fields, st) ==
  LET m1 == IF ~Truthy(RecGet(st.mappings, "primary")) /\ Len(fields) > 0
               /\ fields[1] \notin st.usedFields
            THEN [mappings |-> RecSet(st.mappings, "primary", fields[1]),
                  usedFields |-> st.usedFields \cup {fields[1]}]
            ELSE st
  IN IF ~Truthy(RecGet(m1.mappings, "secondary")) /\ Len(fields) > 1
        /\ fields[2] \notin m1.usedFields
     THEN RecSet(m1.mappings, "secondary", fields[2])
     ELSE m1.mappings

\* the two passes of suggestMappings
mappingPasses(fields) ==
  LET pass1 == mappingPass(fields, FirstPassThreshold, FALSE, 1, <<>>, {})
  IN mappingPass(fields, SecondPassThreshold, TRUE, 1, pass1.mappings, pass1.usedFields)

suggestMappings(noteType) ==
  mappingFallback(noteType.fields, mappingPasses(noteType.fields))

\* Array.prototype.find(f => !usedFields.has(f))
find(fields, usedFields) ==
  LET unused == {i \in 1..Len(fields) : fields[i] \notin usedFields} IN
  IF unused = {} THEN <<>>
  ELSE <<fields[CHOOSE i \in unused : \A j \in unused : i <= j]>>

\* mutant: the pass does not remember the fields it has given away
RECURSIVE suggestionPassForgetsUsed(_, _, _, _)
suggestionPassForgetsUsed(fields, p, suggestions, usedFields) ==
  IF p > Len(patterns) THEN [suggestions |-> suggestions, usedFields |-> usedFields]
  ELSE LET bestMatch == findBestFieldMatch(fields, patterns[p].keywords, usedFields) IN
       IF Truthy(bestMatch.field)
       THEN suggestionPassForgetsUsed(fields, p + 1,
                           Append(suggestions, [semantic |-> patterns[p].semantic,
                                                field |-> bestMatch.field[1],
                                                confidence |-> bestMatch.confidence]),
                           usedFields)
       ELSE suggestionPassForgetsUsed(fields, p + 1, suggestions, usedFields)

\* the single pass of getSuggestionDetails over the patterns from pattern p on
RECURSIVE suggestionPass(_, _, _, _)
suggestionPass(fields, p, suggestions, usedFields) ==
  IF p > Len(patterns) THEN [suggestions |-> suggestions, usedFields |-> usedFields]
  ELSE LET bestMatch == findBestFieldMatch(fields, patterns[p].keywords, usedFields) IN
       IF Truthy(bestMatch.field)
       THEN suggestionPass(fields, p + 1,
                           Append(suggestions, [semantic |-> patterns[p].semantic,
                                                field |-> bestMatch.field[1],
                                                confidence |-> bestMatch.confidence]),
                           usedFields \cup {bestMatch.field[1]})
       ELSE suggestionPass(fields, p + 1, suggestions, usedFields)

\* mutant: the fallback looks at the fixed positions, as suggestMappings does
suggestionFallbackPositional(fields, st) ==
  LET mappedSemantics == {st.suggestions[i].semantic : i \in 1..Len(st.suggestions)}
      s1 == IF "primary" \notin mappedSemantics /\ Len(fields) > 0
               /\ fields[1] \notin st.usedFields
            THEN [suggestions |-> Append(st.suggestions,
                                         [semantic |-> "primary", field |-> fields[1],
                                          confidence |-> FallbackConfidence]),
                  usedFields |-> st.usedFields \cup {fields[1]}]
            ELSE st
  IN IF "secondary" \notin mappedSemantics /\ Len(fields) > 1
        /\ fields[2] \notin s1.usedFields
     THEN Append(s1.suggestions, [semantic |-> "secondary", field |-> fields[2],
                                  confidence |-> FallbackConfidence])
     ELSE s1.suggestions

\* the fallback of getSuggestionDetails: the first unused field for
\* 'primary', then the first unused field for 'secondary'
suggestionFallback(fields, st) ==
  LET mappedSemantics == {st.suggestions[i].semantic : i \in 1..Len(st.suggestions)}
      field1 == find(fields, st.usedFields)
      s1 == IF "primary" \notin mappedSemantics /\ Len(fields) > 0 /\ Truthy(field1)
            THEN [suggestions |-> Append(st.suggestions,
                                         [semantic |-> "primary", field |-> field1[1],
                                          confidence |-> FallbackConfidence]),
                  usedFields |-> st.usedFields \cup {field1[1]}]
            ELSE st
      field2 == find(fields, s1.usedFields)
  IN IF "secondary" \notin mappedSemantics /\ Len(fields) > 1 /\ Truthy(field2)
     THEN Append(s1.suggestions, [semantic |-> "secondary", field |-> field2[1],
                                  confidence |-> FallbackConfidence])
     ELSE s1.suggestions

getSuggestionDetails(noteType) ==
  suggestionFallback(noteType.fields, suggestionPass(noteType.fields, 1, <<>>, {}))

\* mutant: the duplicate check is left out
RECURSIVE validateLoopNoDuplicateCheck(_, _, _, _)
validateLoopNoDuplicateCheck(availableFields, mapping, e, usedFields) ==
  IF e > Len(mapping) THEN TRUE
  ELSE IF mapping[e][2] \notin availableFields THEN FALSE
  ELSE validateLoopNoDuplicateCheck(availableFields, mapping, e + 1,
                                    usedFields \cup {mapping[e][2]})

\* the loop of validateMapping over the mapping's entries, from entry e on
RECURSIVE validateLoop(_, _, _, _)
validateLoop(availableFields, mapping, e, usedFields) ==
  IF e > Len(mapping) THEN TRUE
  ELSE IF mapping[e][2] \notin availableFields THEN FALSE
  ELSE IF mapping[e][2] \in usedFields THEN FALSE
  ELSE validateLoop(availableFields, mapping, e + 1, usedFields \cup {mapping[e][2]})

validateMapping(noteType, mapping) ==
  validateLoop(Range(noteType.fields), mapping, 1, {})

\* what applyMapping puts between two merged contents: the template literal
\* `\\n${content}` is a backslash followed by the letter n
MergeSeparator == <<"\\", "n">>

\* mutant: blank content is not skipped
RECURSIVE applyLoopKeepBlank(_, _, _, _)
applyLoopKeepBlank(mapping, semanticContent, e, result) ==
  IF e > Len(semanticContent) THEN result
  ELSE LET semantic == semanticContent[e][1]
           content == semanticContent[e][2]
           actualField == RecGet(mapping, semantic)
       IN IF Truthy(actualField)
          THEN IF Truthy(RecGet(result, actualField[1]))
               THEN applyLoopKeepBlank(mapping, semanticContent, e + 1,
                      RecSet(result, actualField[1],
                             RecGet(result, actualField[1])[1] \o MergeSeparator \o content))
               ELSE applyLoopKeepBlank(mapping, semanticContent, e + 1,
                      RecSet(result, actualField[1], content))
          ELSE applyLoopKeepBlank(mapping, semanticContent, e + 1, result)

\* the loop of applyMapping over the content's entries, from entry e on
RECURSIVE applyLoop(_, _, _, _)
applyLoop(mapping, semanticContent, e, result) ==
  IF e > Len(semanticContent) THEN result
  ELSE LET semantic == semanticContent[e][1]
           content == semanticContent[e][2]
           actualField == RecGet(mapping, semantic)
       IN IF Truthy(actualField) /\ content # <<>> /\ trim(content) # <<>>
          THEN IF Truthy(RecGet(result, actualField[1]))
               THEN applyLoop(mapping, semanticContent, e + 1,
                      RecSet(result, actualField[1],
                             RecGet(result, actualField[1])[1] \o MergeSeparator \o content))
               ELSE applyLoop(mapping, semanticContent, e + 1,
                      RecSet(result, actualField[1], content))
          ELSE applyLoop(mapping, semanticContent, e + 1, result)

applyMapping(mapping, semanticContent) == applyLoop(mapping, semanticContent, 1, <<>>)

(***************************************************************************)
(* DeckAnalyzer                                                            *)
(***************************************************************************)
DefaultSampleSize == 5
MaxSampleLength == 50
LongSampleLength == 100
ShortSampleLength == 20

\* Array.prototype.slice(0, end)
slice(arr, end) ==
  LET e == IF end < 0 THEN Max(Len(arr) + end, 0) ELSE Min(end, Len(arr))
  IN SubSeq(arr, 1, e)

\* String.prototype.substring(0, end), for 0 <= end
substring(str, end) == SubSeq(str, 1, Min(end, Len(str)))

\* Array.prototype.join(' ')
RECURSIVE join(_)
join(samples) ==
  IF samples = <<>> THEN <<>>
  ELSE IF Len(samples) = 1 THEN samples[1]
  ELSE samples[1] \o <<" ">> \o join(Tail(samples))

LineTerminators == {"\n", "\r", "U+2028", "U+2029"}

\* /\/.*\//.test(str): two slashes with no line terminator between them
slashPattern(str) ==
  \E i, j \in 1..Len(str) :
    /\ i < j
    /\ str[i] = "/"
    /\ str[j] = "/"
    /\ \A k \in (i + 1)..(j - 1) : str[k] \notin LineTerminators

\* mutant: the sample size is not limited to the cards there are
actualSampleSizeUnlimited(requested, ids) == requested

\* const actualSampleSize = Math.min(sampleSize, cardIds.length)
actualSampleSize(requested, ids) == Min(requested, Len(ids))

\* const sampleCardIds = cardIds.slice(0, actualSampleSize)
sampleCardIds(ids, size) == slice(ids, size)

\* the counting loop of getPrimaryNoteType, from card c on
RECURSIVE countNoteTypes(_, _, _)
countNoteTypes(cards, c, noteTypeCounts) ==
  IF c > Len(cards) THEN noteTypeCounts
  ELSE LET old == RecGet(noteTypeCounts, cards[c].modelName)
           count == IF old = <<>> \/ old[1] = 0 THEN 0 ELSE old[1]
       IN countNoteTypes(cards, c + 1,
                         RecSet(noteTypeCounts, cards[c].modelName, count + 1))

\* mutant: a later type of equal count replaces the earlier one
RECURSIVE maxNoteTypeLastWins(_, _, _, _)
maxNoteTypeLastWins(noteTypeCounts, e, primaryType, maxCount) ==
  IF e > Len(noteTypeCounts) THEN primaryType
  ELSE IF noteTypeCounts[e][2] >= maxCount
  THEN maxNoteTypeLastWins(noteTypeCounts, e + 1, noteTypeCounts[e][1],
                           noteTypeCounts[e][2])
  ELSE maxNoteTypeLastWins(noteTypeCounts, e + 1, primaryType, maxCount)

\* the maximum loop of getPrimaryNoteType, from entry e on
RECURSIVE maxNoteType(_, _, _, _)
maxNoteType(noteTypeCounts, e, primaryType, maxCount) ==
  IF e > Len(noteTypeCounts) THEN primaryType
  ELSE IF noteTypeCounts[e][2] > maxCount
  THEN maxNoteType(noteTypeCounts, e + 1, noteTypeCounts[e][1], noteTypeCounts[e][2])
  ELSE maxNoteType(noteTypeCounts, e + 1, primaryType, maxCount)

getPrimaryNoteType(cards) ==
  maxNoteType(countNoteTypes(cards, 1, <<>>), 1, "", 0)

\* mutant: a long value is stored whole
RECURSIVE sampleCardFieldsWhole(_, _, _)
sampleCardFieldsWhole(fields, e, fieldSamples) ==
  IF e > Len(fields) THEN fieldSamples
  ELSE LET fieldName == fields[e][1]
           value == fields[e][2]
           declared == IF RecHas(fieldSamples, fieldName) THEN fieldSamples
                       ELSE RecSet(fieldSamples, fieldName, <<>>)
       IN IF value # <<>> /\ trim(value) # <<>>
          THEN sampleCardFieldsWhole(fields, e + 1,
                 RecSet(declared, fieldName,
                        Append(RecGet(declared, fieldName)[1], value)))
          ELSE sampleCardFieldsWhole(fields, e + 1, declared)

\* mutant: a value is cut at three times the length
RECURSIVE sampleCardFieldsCutLate(_, _, _)
sampleCardFieldsCutLate(fields, e, fieldSamples) ==
  IF e > Len(fields) THEN fieldSamples
  ELSE LET fieldName == fields[e][1]
           value == fields[e][2]
           declared == IF RecHas(fieldSamples, fieldName) THEN fieldSamples
                       ELSE RecSet(fieldSamples, fieldName, <<>>)
           truncatedValue == IF Len(value) > 3 * MaxSampleLength
                             THEN substring(value, 3 * MaxSampleLength)
                             ELSE value
       IN IF value # <<>> /\ trim(value) # <<>>
          THEN sampleCardFieldsCutLate(fields, e + 1,
                 RecSet(declared, fieldName,
                        Append(RecGet(declared, fieldName)[1], truncatedValue)))
          ELSE sampleCardFieldsCutLate(fields, e + 1, declared)

\* the inner loop of getFieldSamples over the fields of one card, from entry e on
RECURSIVE sampleCardFields(_, _, _)
sampleCardFields(fields, e, fieldSamples) ==
  IF e > Len(fields) THEN fieldSamples
  ELSE LET fieldName == fields[e][1]
           value == fields[e][2]
           declared == IF RecHas(fieldSamples, fieldName) THEN fieldSamples
                       ELSE RecSet(fieldSamples, fieldName, <<>>)
           truncatedValue == IF Len(value) > MaxSampleLength
                             THEN substring(value, MaxSampleLength)
                             ELSE value
       IN IF value # <<>> /\ trim(value) # <<>>
          THEN sampleCardFields(fields, e + 1,
                 RecSet(declared, fieldName,
                        Append(RecGet(declared, fieldName)[1], truncatedValue)))
          ELSE sampleCardFields(fields, e + 1, declared)

\* the outer loop of getFieldSamples over the cards, from card c on
RECURSIVE sampleCards(_, _, _)
sampleCards(cards, c, fieldSamples) ==
  IF c > Len(cards) THEN fieldSamples
  ELSE sampleCards(cards, c + 1, sampleCardFields(cards[c].fields, 1, fieldSamples))

getFieldSamples(cards) == sampleCards(cards, 1, <<>>)

\* mutant: the slash rule on the content comes before the rules on the name
analyzeFieldContentSlashFirst(fieldName, samples) ==
  LET fieldLower == toLowerCase(fieldName)
      contentSample == toLowerCase(join(samples))
  IN IF slashPattern(contentSample)
     THEN "Likely pronunciation symbols"
     ELSE IF includes(fieldLower, <<"e","x","p","r","e","s","s","i","o","n">>) \/ includes(fieldLower, <<"p","r","o","n","u","n","c","i","a","t","i","o","n">>)
     THEN "English expressions or pronunciation"
     ELSE IF includes(fieldLower, <<"p","h","o","n","e","t","i","c">>) \/ includes(fieldLower, <<"p","r","o","n","u","n","c","i","a","t","i","o","n">>)
     THEN "Pronunciation or phonetic information"
     ELSE IF includes(fieldLower, <<"e","x","a","m","p","l","e">>) \/ includes(fieldLower, <<"s","e","n","t","e","n","c","e">>)
     THEN "Usage examples or sample sentences"
     ELSE IF includes(fieldLower, <<"m","e","a","n","i","n","g">>) \/ includes(fieldLower, <<"t","r","a","n","s","l","a","t","i","o","n">>)
     THEN "Meaning or translation"
     ELSE IF includes(fieldLower, <<"e","x","p","l","a","n","a","t","i","o","n">>) \/ includes(fieldLower, <<"d","e","s","c","r","i","p","t","i","o","n">>)
     THEN "Detailed explanation or description"
     ELSE IF includes(fieldLower, <<"g","r","a","m","m","a","r">>)
     THEN "Grammar information"
     ELSE IF includes(fieldLower, <<"s","y","n","o","n","y","m">>) \/ includes(fieldLower, <<"r","e","l","a","t","e","d">>)
     THEN "Synonyms or related words"
     ELSE IF includes(fieldLower, <<"c","o","l","l","o","c","a","t","i","o","n">>)
     THEN "Word collocations"
     ELSE IF includes(contentSample, <<"e","x","a","m","p","l","e",":">>) \/ includes(contentSample, <<"u","s","a","g","e",":">>)
     THEN "Examples or usage demonstrations"
     ELSE IF \E i \in 1..Len(samples) : Len(samples[i]) > LongSampleLength
     THEN "Long detailed explanations"
     ELSE IF \E i \in 1..Len(samples) : Len(samples[i]) < ShortSampleLength
     THEN "Short words or phrases"
     ELSE "General content (purpose unclear)"

\* mutant: the phonetic rule comes before the expression rule
analyzeFieldContentPhoneticFirst(fieldName, samples) ==
  LET fieldLower == toLowerCase(fieldName)
      contentSample == toLowerCase(join(samples))
  IN IF includes(fieldLower, <<"p","h","o","n","e","t","i","c">>) \/ includes(fieldLower, <<"p","r","o","n","u","n","c","i","a","t","i","o","n">>)
     THEN "Pronunciation or phonetic information"
     ELSE IF includes(fieldLower, <<"e","x","p","r","e","s","s","i","o","n">>) \/ includes(fieldLower, <<"p","r","o","n","u","n","c","i","a","t","i","o","n">>)
     THEN "English expressions or pronunciation"
     ELSE IF includes(fieldLower, <<"e","x","a","m","p","l","e">>) \/ includes(fieldLower, <<"s","e","n","t","e","n","c","e">>)
     THEN "Usage examples or sample sentences"
     ELSE IF includes(fieldLower, <<"m","e","a","n","i","n","g">>) \/ includes(fieldLower, <<"t","r","a","n","s","l","a","t","i","o","n">>)
     THEN "Meaning or translation"
     ELSE IF includes(fieldLower, <<"e","x","p","l","a","n","a","t","i","o","n">>) \/ includes(fieldLower, <<"d","e","s","c","r","i","p","t","i","o","n">>)
     THEN "Detailed explanation or description"
     ELSE IF includes(fieldLower, <<"g","r","a","m","m","a","r">>)
     THEN "Grammar information"
     ELSE IF includes(fieldLower, <<"s","y","n","o","n","y","m">>) \/ includes(fieldLower, <<"r","e","l","a","t","e","d">>)
     THEN "Synonyms or related words"
     ELSE IF includes(fieldLower, <<"c","o","l","l","o","c","a","t","i","o","n">>)
     THEN "Word collocations"
     ELSE IF slashPattern(contentSample)
     THEN "Likely pronunciation symbols"
     ELSE IF includes(contentSample, <<"e","x","a","m","p","l","e",":">>) \/ includes(contentSample, <<"u","s","a","g","e",":">>)
     THEN "Examples or usage demonstrations"
     ELSE IF \E i \in 1..Len(samples) : Len(samples[i]) > LongSampleLength
     THEN "Long detailed explanations"
     ELSE IF \E i \in 1..Len(samples) : Len(samples[i]) < ShortSampleLength
     THEN "Short words or phrases"
     ELSE "General content (purpose unclear)"

\* mutant: the short-sample rule comes before the long-sample rule
analyzeFieldContentShortFirst(fieldName, samples) ==
  LET fieldLower == toLowerCase(fieldName)
      contentSample == toLowerCase(join(samples))
  IN IF includes(fieldLower, <<"e","x","p","r","e","s","s","i","o","n">>) \/ includes(fieldLower, <<"p","r","o","n","u","n","c","i","a","t","i","o","n">>)
     THEN "English expressions or pronunciation"
     ELSE IF includes(fieldLower, <<"p","h","o","n","e","t","i","c">>) \/ includes(fieldLower, <<"p","r","o","n","u","n","c","i","a","t","i","o","n">>)
     THEN "Pronunciation or phonetic information"
     ELSE IF includes(fieldLower, <<"e","x","a","m","p","l","e">>) \/ includes(fieldLower, <<"s","e","n","t","e","n","c","e">>)
     THEN "Usage examples or sample sentences"
     ELSE IF includes(fieldLower, <<"m","e","a","n","i","n","g">>) \/ includes(fieldLower, <<"t","r","a","n","s","l","a","t","i","o","n">>)
     THEN "Meaning or translation"
     ELSE IF includes(fieldLower, <<"e","x","p","l","a","n","a","t","i","o","n">>) \/ includes(fieldLower, <<"d","e","s","c","r","i","p","t","i","o","n">>)
     THEN "Detailed explanation or description"
     ELSE IF includes(fieldLower, <<"g","r","a","m","m","a","r">>)
     THEN "Grammar information"
     ELSE IF includes(fieldLower, <<"s","y","n","o","n","y","m">>) \/ includes(fieldLower, <<"r","e","l","a","t","e","d">>)
     THEN "Synonyms or related words"
     ELSE IF includes(fieldLower, <<"c","o","l","l","o","c","a","t","i","o","n">>)
     THEN "Word collocations"
     ELSE IF slashPattern(contentSample)
     THEN "Likely pronunciation symbols"
     ELSE IF includes(contentSample, <<"e","x","a","m","p","l","e",":">>) \/ includes(contentSample, <<"u","s","a","g","e",":">>)
     THEN "Examples or usage demonstrations"
     ELSE IF \E i \in 1..Len(samples) : Len(samples[i]) < ShortSampleLength
     THEN "Short words or phrases"
     ELSE IF \E i \in 1..Len(samples) : Len(samples[i]) > LongSampleLength
     THEN "Long detailed explanations"
     ELSE "General content (purpose unclear)"

analyzeFieldContent(fieldName, samples) ==
  LET fieldLower == toLowerCase(fieldName)
      contentSample == toLowerCase(join(samples))
  IN IF includes(fieldLower, <<"e","x","p","r","e","s","s","i","o","n">>) \/ includes(fieldLower, <<"p","r","o","n","u","n","c","i","a","t","i","o","n">>)
     THEN "English expressions or pronunciation"
     ELSE IF includes(fieldLower, <<"p","h","o","n","e","t","i","c">>) \/ includes(fieldLower, <<"p","r","o","n","u","n","c","i","a","t","i","o","n">>)
     THEN "Pronunciation or phonetic information"
     ELSE IF includes(fieldLower, <<"e","x","a","m","p","l","e">>) \/ includes(fieldLower, <<"s","e","n","t","e","n","c","e">>)
     THEN "Usage examples or sample sentences"
     ELSE IF includes(fieldLower, <<"m","e","a","n","i","n","g">>) \/ includes(fieldLower, <<"t","r","a","n","s","l","a","t","i","o","n">>)
     THEN "Meaning or translation"
     ELSE IF includes(fieldLower, <<"e","x","p","l","a","n","a","t","i","o","n">>) \/ includes(fieldLower, <<"d","e","s","c","r","i","p","t","i","o","n">>)
     THEN "Detailed explanation or description"
     ELSE IF includes(fieldLower, <<"g","r","a","m","m","a","r">>)
     THEN "Grammar information"
     ELSE IF includes(fieldLower, <<"s","y","n","o","n","y","m">>) \/ includes(fieldLower, <<"r","e","l","a","t","e","d">>)
     THEN "Synonyms or related words"
     ELSE IF includes(fieldLower, <<"c","o","l","l","o","c","a","t","i","o","n">>)
     THEN "Word collocations"
     ELSE IF slashPattern(contentSample)
     THEN "Likely pronunciation symbols"
     ELSE IF includes(contentSample, <<"e","x","a","m","p","l","e",":">>) \/ includes(contentSample, <<"u","s","a","g","e",":">>)
     THEN "Examples or usage demonstrations"
     ELSE IF \E i \in 1..Len(samples) : Len(samples[i]) > LongSampleLength
     THEN "Long detailed explanations"
     ELSE IF \E i \in 1..Len(samples) : Len(samples[i]) < ShortSampleLength
     THEN "Short words or phrases"
     ELSE "General content (purpose unclear)"

\* mutant: a field without samples gets no entry
analyzeFieldsSkipEmpty(fieldSamples) ==
  LET sampled == SelectSeq(fieldSamples, LAMBDA entry : entry[2] # <<>>)
  IN [e \in 1..Len(sampled) |->
        <<sampled[e][1], analyzeFieldContent(sampled[e][1], sampled[e][2])>>]

\* for (const [fieldName, samples] of Object.entries(fieldSamples))
analyzeFields(fieldSamples) ==
  [e \in 1..Len(fieldSamples) |->
     <<fieldSamples[e][1], analyzeFieldContent(fieldSamples[e][1], fieldSamples[e][2])>>]

\* analyzeDeck from the answer of getCardsInfo to its return value
analysisResult(deck, size, cardsInfo) ==
  LET primaryNoteType == getPrimaryNoteType(cardsInfo)
      fieldSamples == getFieldSamples(cardsInfo)
      fieldAnalysis == analyzeFields(fieldSamples)
      mockNoteType == [name |-> primaryNoteType, fields |-> Keys(fieldSamples)]
  IN [deckName |-> deck,
      sampleSize |-> size,
      primaryNoteType |-> primaryNoteType,
      fieldAnalysis |-> fieldAnalysis,
      suggestedMappings |-> suggestMappings(mockNoteType)]

(***************************************************************************)
(* DeckAnalyzer.generateReport                                             *)
(*                                                                         *)
(* The report is the sequence of the pieces appended to it: a piece is     *)
(* either text of a template literal, character by character, or the       *)
(* value of an interpolated name (deck name, type name, label).            *)
(***************************************************************************)
\* the text of a template literal, or of a field name
literal(chars) == [chars |-> chars, str |-> ""]

\* ${...} of a deck name, a type name, a classification or a semantic label
interpolated(str) == [chars |-> <<>>, str |-> str]

Digits == <<"0", "1", "2", "3", "4", "5", "6", "7", "8", "9">>

\* ${analysisResult.sampleSize}: the decimal numeral of an integer
RECURSIVE numberToString(_)
numberToString(n) ==
  IF n < 0 THEN <<"-">> \o numberToString(0 - n)
  ELSE IF n < 10 THEN <<Digits[n + 1]>>
  ELSE numberToString(n \div 10) \o <<Digits[(n % 10) + 1]>>

ReportHeader == <<"=", "=", "=", " ", "D", "e", "c", "k", " ", "A", "n", "a", "l", "y", "s", "i", "s", " ", "R", "e", "p", "o", "r", "t", " ", "=", "=", "=", "\\", "n", "\\", "n">>

DeckLine == <<"D", "e", "c", "k", ":", " ">>

SampleSizeLine == <<"S", "a", "m", "p", "l", "e", " ", "s", "i", "z", "e", ":", " ">>

PrimaryNoteTypeLine == <<"P", "r", "i", "m", "a", "r", "y", " ", "n", "o", "t", "e", " ", "t", "y", "p", "e", ":", " ">>

FieldAnalysisHeading == <<"F", "i", "e", "l", "d", " ", "A", "n", "a", "l", "y", "s", "i", "s", ":", "\\", "n">>

MappingsHeading == <<"\\", "n", "S", "u", "g", "g", "e", "s", "t", "e", "d", " ", "S", "e", "m", "a", "n", "t", "i", "c", " ", "M", "a", "p", "p", "i", "n", "g", "s", ":", "\\", "n">>

NoMappingsLine == <<"N", "o", " ", "s", "e", "m", "a", "n", "t", "i", "c", " ", "m", "a", "p", "p", "i", "n", "g", "s", " ", "s", "u", "g", "g", "e", "s", "t", "e", "d", "\\", "n">>

ItemStart == <<"-", " ">>

Colon == <<":", " ">>

\* the connective of a mapping item as the source file has it
MappingConnective == <<" ", "U+00E2", "U+2020", "U+2019", " ">>

LineEnd == <<"\\", "n">>

BlankLineEnd == <<"\\", "n", "\\", "n">>

\* the loop over the entries of fieldAnalysis, from entry e on
RECURSIVE fieldAnalysisLines(_, _, _)
fieldAnalysisLines(fieldAnalysis, e, report) ==
  IF e > Len(fieldAnalysis) THEN report
  ELSE fieldAnalysisLines(fieldAnalysis, e + 1,
         report \o <<literal(ItemStart), literal(fieldAnalysis[e][1]), literal(Colon),
                     interpolated(fieldAnalysis[e][2]), literal(LineEnd)>>)

\* the loop over the entries of suggestedMappings, from entry e on
RECURSIVE mappingLines(_, _, _)
mappingLines(suggestedMappings, e, report) ==
  IF e > Len(suggestedMappings) THEN report
  ELSE mappingLines(suggestedMappings, e + 1,
         report \o <<literal(ItemStart), interpolated(suggestedMappings[e][1]),
                     literal(MappingConnective), literal(suggestedMappings[e][2]),
                     literal(LineEnd)>>)

generateReport(res) ==
  LET head == <<literal(ReportHeader),
                literal(DeckLine), interpolated(res.deckName), literal(LineEnd),
                literal(SampleSizeLine), literal(numberToString(res.sampleSize)), literal(LineEnd),
                literal(PrimaryNoteTypeLine), interpolated(res.primaryNoteType),
                literal(BlankLineEnd),
                literal(FieldAnalysisHeading)>>
      analysis == fieldAnalysisLines(res.fieldAnalysis, 1, head)
      mappingsHead == analysis \o <<literal(MappingsHeading)>>
  IN IF Len(Keys(res.suggestedMappings)) = 0
     THEN mappingsHead \o <<literal(NoMappingsLine)>>
     ELSE mappingLines(res.suggestedMappings, 1, mappingsHead)

(***************************************************************************)
(* Inputs                                                                  *)
(***************************************************************************)
Front == <<"F","r","o","n","t">>
Back == <<"B","a","c","k">>
Question == <<"Q","u","e","s","t","i","o","n">>
ANSWER == <<"A","N","S","W","E","R">>
Notes == <<"N","o","t","e","s">>
Text == <<"T","e","x","t">>
Field1 == <<"F","i","e","l","d","1">>
Field2 == <<"F","i","e","l","d","2">>
Field3 == <<"F","i","e","l","d","3">>
FrontSide == <<"F","r","o","n","t","S","i","d","e">>
WordMeaning == <<"W","o","r","d"," ","M","e","a","n","i","n","g">>
NonExistent == <<"N","o","n","E","x","i","s","t","e","n","t">>

\* field names a note type may declare
FieldNames ==
  {Front, Back, Question, ANSWER, Notes, Text, Field1, Field2, Field3, FrontSide,
   WordMeaning}

\* sequences of pairwise different elements of S, of length at most n
InjectiveSeqs(S, n) ==
  UNION {{s \in [1..k -> S] : \A i, j \in 1..k : i # j => s[i] # s[j]} : k \in 0..n}

\* a note type declares pairwise different, non-empty field names
NoteTypes == [name : {"Custom"}, fields : InjectiveSeqs(FieldNames, MaxFields)]

Semantics == {"primary", "secondary", "notes"}

\* the fields a mapping may name: NonExistent is declared by no note type
TargetFields == {Front, Back, NonExistent}

\* Records with pairwise different keys from K and values from V, of at most n entries
Records(K, V, n) ==
  UNION {{r \in [1..k -> K \X V] : \A i, j \in 1..k : i # j => r[i][1] # r[j][1]} : k \in 0..n}

\* the note types a mapping is validated against
MappedNoteTypes == [name : {"Basic"}, fields : InjectiveSeqs({Front, Back, Notes}, MaxFields)]

Mappings == Records(Semantics, TargetFields, MaxMapping)

Contents ==
  {<<>>, <<" ">>, <<"P">>, <<"S">>, <<" ", "Q", " ">>}

\* the labels a content may carry: "unmapped" is a key of no mapping
ContentLabels == {"primary", "secondary", "unmapped"}

SemanticContents == Records(ContentLabels, Contents, MaxContent)

DeckNames == {"TestDeck"}

MaxIds == 3

\* what findCards may answer: up to MaxIds card ids, ascending or descending
\* (the store fixes the order)
IdLists ==
  UNION {{[i \in 1..n |-> i], [i \in 1..n |-> n + 1 - i]} : n \in 0..MaxIds}

MaxRequested == 4

\* the sampleSize argument: absent (undefined) or an integer
SampleSizeArgs == {<<>>} \cup {<<n>> : n \in (-1)..MaxRequested}

\* a text of n characters whose i-th character is the last digit of i
Numbered(n) ==
  [i \in 1..n |-> <<"0","1","2","3","4","5","6","7","8","9">>[(i % 10) + 1]]

\* the cards getCardsInfo may answer with (modelName and fields; the field
\* values are what the analysis reads)
Cards ==
  { [modelName |-> "Basic",
     fields |-> << <<Front, <<"H","e","l","l","o">> >>, <<Back, <<>> >> >>],
    [modelName |-> "Basic",
     fields |-> << <<Front, Numbered(51)>>, <<Back, <<" ">> >> >>],
    [modelName |-> "Cloze",
     fields |-> << <<Text, <<"/","a","/">> >>, <<Notes, Numbered(101)>> >>],
    [modelName |-> "Cloze",
     fields |-> << <<Text, Numbered(50)>>, <<Front, <<"H","i">> >> >>] }

MaxCards == 2

CardLists(n) == [1..n -> Cards]

Quest == <<"Q","u","e","s","t">>

\* the field names findBestFieldMatch is called with
MatchFieldNames == {Front, FrontSide, Question, Quest, WordMeaning, Back}

\* the field names analyzeFieldContent is called with: Front and Back match
\* no rule on the name
ClassifiedNames ==
  {<<"E","x","p","r","e","s","s","i","o","n">>,
   <<"P","r","o","n","u","n","c","i","a","t","i","o","n">>,
   <<"P","h","o","n","e","t","i","c">>,
   <<"E","x","a","m","p","l","e"," ","M","e","a","n","i","n","g">>,
   <<"S","e","n","t","e","n","c","e">>,
   <<"T","r","a","n","s","l","a","t","i","o","n">>,
   <<"R","e","l","a","t","e","d"," ","D","e","s","c","r","i","p","t","i","o","n">>,
   <<"G","r","a","m","m","a","r">>,
   <<"S","y","n","o","n","y","m">>,
   <<"C","o","l","l","o","c","a","t","i","o","n">>,
   <<"P","R","O","N","U","N","C","I","A","T","I","O","N">>,
   <<"P","h","o","n","e","t","i","c"," ","P","r","o","n","u","n","c","i","a","t","i","o","n">>,
   <<"P","h","o","n","e","t","i","c"," ","E","x","p","r","e","s","s","i","o","n">>,
   Front, Back}

Slashed == <<"/","a","/">>

ExampleText == <<"E","x","a","m","p","l","e",":"," ","r","u","n">>

\* the sample lists analyzeFieldContent is called with
SampleLists ==
  {<<>>, <<Slashed>>, <<ExampleText>>, <<Numbered(101)>>, <<Numbered(20)>>,
   << <<"H","i">> >>, <<Numbered(101), <<"H","i">> >>,
   << <<"/","a">>, <<"b","/">> >>, <<ExampleText, Slashed>>,
   <<ExampleText, Numbered(101)>>}

\* the results analyzeDeck can return for a sample of up to MaxCards cards
AnalysisResults ==
  UNION {{analysisResult(deck, n, cards) : deck \in DeckNames, cards \in CardLists(n)} :
           n \in 0..MaxCards}

\* the failures a call of the card store may end with
StoreErrors == {"AnkiConnect error: collection is not available", "fetch failed"}

NoCardsError == "Deck contains no cards"

(***************************************************************************)
(* Inputs of the server's operations and its surroundings                  *)
(***************************************************************************)
MaxTasks == 2

MaxCalls == 2

\* the invocations that can be under way at once
Tasks == 1..MaxTasks

\* what getNoteTypes answers
AnkiNoteTypes ==
  << [name |-> "Basic", fields |-> <<Front, Back>>],
     [name |-> "Cloze", fields |-> <<Text, Notes>>] >>

\* getDefaultConfig()
DefaultConfig ==
  [preferredDeck |-> "Default",
   preferredNoteType |-> "Basic",
   fieldMappings |-> << <<"primary", Front>>, <<"secondary", Back>> >>]

\* a valid configuration file that maps nothing
UnmappedConfig ==
  [preferredDeck |-> "Default", preferredNoteType |-> "Basic", fieldMappings |-> <<>>]

ConfigFiles == {<<>>, <<UnmappedConfig>>}

\* the deck in the store: empty, or a Cloze card followed by two Basic cards
DeckContents ==
  {<<>>,
   << [modelName |-> "Cloze",
       fields |-> << <<Text, <<"/","a","/">> >>, <<Notes, <<"H","i">> >> >>],
      [modelName |-> "Basic",
       fields |-> << <<Front, <<"H","e","l","l","o">> >>, <<Back, <<>> >> >>],
      [modelName |-> "Basic",
       fields |-> << <<Front, <<"H","i">> >>, <<Back, <<" ">> >> >>] >>}

\* the arguments of an operation: absent ones are <<>>
NoArgs == [deck |-> "", noteType |-> "", fieldMappings |-> <<>>, content |-> <<>>,
           confirm |-> <<>>]

\* ConfigureAnkiSetupArgs: fieldMappings is optional
ConfigureArgs ==
  {[NoArgs EXCEPT !.deck = "TestDeck", !.noteType = "Cloze", !.fieldMappings = m] :
     m \in {<<>>, << << <<"primary", Text>> >> >>}}

\* AddSmartCardArgs: deck, noteType and tags are left out
AddSmartCardArgs ==
  {[NoArgs EXCEPT !.content = c] :
     c \in {<< <<"primary", <<"P">> >> >>,
            << <<"primary", <<" ">> >> >>,
            << <<"unmapped", <<"P">> >> >>}}

\* AutoConfigureFromDeckArgs: confirm is optional
AutoConfigureArgs ==
  {[NoArgs EXCEPT !.deck = "TestDeck", !.confirm = c] : c \in {<<>>, <<FALSE>>, <<TRUE>>}}

\* an invocation slot: op "none" and pc "idle" while free; configBefore is
\* this.userConfig as configureAnkiSetup found it when it assigned the new one
NoTask ==
  [op |-> "none", pc |-> "idle", args |-> NoArgs, analysis |-> <<>>,
   createDeckFailed |-> FALSE, configBefore |-> <<>>, config |-> <<>>, ret |-> <<>>,
   error |-> ""]

NoFieldsMappedError == "No fields were mapped. Please check your configuration."

\* what a failing call of the card store throws
StoreCallError == "fetch failed"

SaveConfigError == "Failed to save configuration: EACCES"

ConfirmInstruction ==
  <<"\\", "n", "\\", "n", "I", "f", " ", "t", "h", "i", "s", " ", "c", "o", "n", "f", "i", "g", "u", "r", "a", "t", "i", "o", "n", " ", "l", "o", "o", "k", "s", " ", "g", "o", "o", "d", ",", " ", "r", "u", "n", " ", "a", "u", "t", "o", "_", "c", "o", "n", "f", "i", "g", "u", "r", "e", "_", "f", "r", "o", "m", "_", "d", "e", "c", "k", " ", "w", "i", "t", "h", " ", "c", "o", "n", "f", "i", "r", "m", ":", " ", "t", "r", "u", "e", " ", "t", "o", " ", "a", "p", "p", "l", "y", ".">>

\* the tool names the call-tool handler has a case for
RegisteredTools ==
  {"configure_anki_setup", "get_anki_info", "add_smart_card", "suggest_field_mapping",
   "analyze_existing_deck", "auto_configure_from_deck"}

\* the names a call-tool request may carry
ToolNames == RegisteredTools \cup {"delete_deck", ""}

\* new Error(message), as a thrown value
Error(message) == [code |-> "", message |-> message, detail |-> <<>>]

\* new McpError(code, message), the message being a text and one
\* interpolated value
McpError(code, message, detail) ==
  [code |-> code, message |-> message, detail |-> detail]

\* how the awaited method of a tool ends: it resolves with a response or
\* throws
ToolOutcomes ==
  {[result |-> <<"response">>, thrown |-> <<>>]}
  \cup {[result |-> <<>>, thrown |-> <<Error(e)>>] :
          e \in {NoFieldsMappedError, StoreCallError, SaveConfigError}}

\* the handler of CallToolRequestSchema: the switch inside the try, and the
\* catch around all of it
callTool(name, outcome) ==
  LET attempt == IF name \in RegisteredTools THEN outcome
                 ELSE [result |-> <<>>,
                       thrown |-> <<McpError("MethodNotFound", "Unknown tool: ", <<name>>)>>]
  IN IF attempt.thrown # <<>>
     THEN [result |-> <<>>,
           thrown |-> <<McpError("InternalError", "Tool execution failed: ",
                                 attempt.thrown)>>]
     ELSE attempt

(***************************************************************************)
(* State                                                                   *)
(***************************************************************************)
VARIABLES
  op,               \* the FieldMapper method called last ("none" before any call)
  noteType,         \* its noteType argument
  mapping,          \* its mapping argument
  semanticContent,  \* its semanticContent argument
  ret,              \* what it returned
  pc,               \* where analyzeDeck stands: "idle", awaiting "findCards" or
                    \* "getCardsInfo", "done" (returned) or "failed" (threw)
  deckName,         \* analyzeDeck's deckName argument
  sampleSize,       \* analyzeDeck's sampleSize parameter, after defaulting
  cardIds,          \* what findCards answered: <<>> before it has, then <<ids>>
  storeCalls,       \* the calls of the card store made by this analyzeDeck, in order
  thrown,           \* the failures the card store answered with, in order
  cardsInfo,        \* what getCardsInfo answered: <<>> before it has, then <<cards>>
  result,           \* the DeckAnalysisResult returned (<<>> if none)
  error,            \* the error analyzeDeck threw ("" if none)
  called,           \* the method called directly ("none" before any call)
  args,             \* its arguments
  returned,         \* its return value
  userConfig,       \* AnkiMcpServer.userConfig: <<>> while undefined, then <<config>>
  availableNoteTypes, \* AnkiMcpServer.availableNoteTypes
  tasks,            \* the invocations of the server's operations under way
  started,          \* how many invocations were started
  loadConfigCalls,  \* how many times ConfigurationManager.loadConfig was called
  saveConfigCalls,  \* the configurations ConfigurationManager.saveConfig was called with
  createDeckCalls,  \* the deck names AnkiConnectClient.createDeck was called with
  addNoteCalls,     \* the notes AnkiConnectClient.addNote was called with
  configFile,       \* the configuration file: <<>> if there is no valid one
  deckCards         \* the cards of the deck in the card store

mapperVars == <<op, noteType, mapping, semanticContent, ret>>

analyzerVars ==
  <<pc, deckName, sampleSize, cardIds, storeCalls, thrown, cardsInfo, result, error>>

methodVars == <<called, args, returned>>

serverVars ==
  <<userConfig, availableNoteTypes, tasks, started, loadConfigCalls, saveConfigCalls,
    createDeckCalls, addNoteCalls, configFile, deckCards>>

vars == <<op, noteType, mapping, semanticContent, ret,
          pc, deckName, sampleSize, cardIds, storeCalls, thrown, cardsInfo, result, error,
          called, args, returned,
          userConfig, availableNoteTypes, tasks, started, loadConfigCalls, saveConfigCalls,
          createDeckCalls, addNoteCalls, configFile, deckCards>>

\* what the calls of one component leave alone
notMapper == <<analyzerVars, methodVars, serverVars>>

notAnalyzer == <<mapperVars, methodVars, serverVars>>

notMethod == <<mapperVars, analyzerVars, serverVars>>

notServer == <<mapperVars, analyzerVars, methodVars>>

NoNoteType == [name |-> "", fields |-> <<>>]

MapperInit ==
  /\ op = "none"
  /\ noteType = NoNoteType
  /\ mapping = <<>>
  /\ semanticContent = <<>>
  /\ ret = <<>>

AnalyzerInit ==
  /\ pc = "idle"
  /\ deckName = ""
  /\ sampleSize = 0
  /\ cardIds = <<>>
  /\ storeCalls = <<>>
  /\ thrown = <<>>
  /\ cardsInfo = <<>>
  /\ result = <<>>
  /\ error = ""

MethodInit ==
  /\ called = "none"
  /\ args = <<>>
  /\ returned = <<>>

\* a constructed server: no configuration loaded, no invocation under way
ServerConstructed ==
  /\ userConfig = <<>>
  /\ availableNoteTypes = <<>>
  /\ tasks = [t \in Tasks |-> NoTask]
  /\ started = 0
  /\ loadConfigCalls = 0
  /\ saveConfigCalls = <<>>
  /\ createDeckCalls = <<>>
  /\ addNoteCalls = <<>>

\* a server without a configuration file, on a store whose deck is empty
ServerAlone ==
  /\ ServerConstructed
  /\ configFile = <<>>
  /\ deckCards = <<>>

\* a server on any of the configuration files and decks
ServerAnywhere ==
  /\ ServerConstructed
  /\ configFile \in ConfigFiles
  /\ deckCards \in DeckContents

Init == MapperInit /\ AnalyzerInit /\ MethodInit /\ ServerAlone

ServerInit == MapperInit /\ AnalyzerInit /\ MethodInit /\ ServerAnywhere

(***************************************************************************)
(* Calls of the FieldMapper methods                                        *)
(***************************************************************************)
SuggestMappings ==
  /\ op = "none"
  /\ \E nt \in NoteTypes :
    /\ op' = "suggestMappings"
    /\ noteType' = nt
    /\ mapping' = <<>>
    /\ semanticContent' = <<>>
    /\ ret' = suggestMappings(nt)
    /\ UNCHANGED notMapper

GetSuggestionDetails ==
  /\ op = "none"
  /\ \E nt \in NoteTypes :
    /\ op' = "getSuggestionDetails"
    /\ noteType' = nt
    /\ mapping' = <<>>
    /\ semanticContent' = <<>>
    /\ ret' = getSuggestionDetails(nt)
    /\ UNCHANGED notMapper

ValidateMapping ==
  /\ op = "none"
  /\ \E nt \in MappedNoteTypes, m \in Mappings :
    /\ op' = "validateMapping"
    /\ noteType' = nt
    /\ mapping' = m
    /\ semanticContent' = <<>>
    /\ ret' = validateMapping(nt, m)
    /\ UNCHANGED notMapper

ApplyMapping ==
  /\ op = "none"
  /\ \E m \in Mappings, c \in SemanticContents :
    /\ op' = "applyMapping"
    /\ noteType' = NoNoteType
    /\ mapping' = m
    /\ semanticContent' = c
    /\ ret' = applyMapping(m, c)
    /\ UNCHANGED notMapper

\* the caller drops the arguments and the result of a finished call
MapperReturn ==
  /\ op # "none"
  /\ op' = "none"
  /\ noteType' = NoNoteType
  /\ mapping' = <<>>
  /\ semanticContent' = <<>>
  /\ ret' = <<>>
  /\ UNCHANGED notMapper

Next ==
  \/ SuggestMappings
  \/ GetSuggestionDetails
  \/ ValidateMapping
  \/ ApplyMapping
  \/ MapperReturn

Spec == Init /\ [][Next]_vars

(***************************************************************************)
(* DeckAnalyzer.analyzeDeck, one step per await                            *)
(***************************************************************************)
\* the call, up to the await of findCards
AnalyzeDeck ==
  /\ pc = "idle"
  /\ \E deck \in DeckNames, arg \in SampleSizeArgs :
       /\ deckName' = deck
       /\ sampleSize' = IF arg = <<>> THEN DefaultSampleSize ELSE arg[1]
       /\ storeCalls' = <<[method |-> "findCards", deck |-> deck, cards |-> <<>>]>>
  /\ pc' = "findCards"
  /\ cardIds' = <<>>
  /\ cardsInfo' = <<>>
  /\ thrown' = <<>>
  /\ result' = <<>>
  /\ error' = ""
  /\ UNCHANGED notAnalyzer

\* findCards rejects: the await throws and analyzeDeck ends with that error
FindCardsFails ==
  /\ pc = "findCards"
  /\ \E e \in StoreErrors :
       /\ thrown' = Append(thrown, e)
       /\ error' = e
  /\ pc' = "failed"
  /\ UNCHANGED <<deckName, sampleSize, cardIds, storeCalls, result, cardsInfo, notAnalyzer>>

\* mutant: the empty answer is not turned into an error and the records are
\* fetched all the same
FindCardsEmptyFetches ==
  /\ pc = "findCards"
  /\ cardIds' = << <<>> >>
  /\ storeCalls' = Append(storeCalls,
                          [method |-> "getCardsInfo", deck |-> "", cards |-> <<>>])
  /\ pc' = "getCardsInfo"
  /\ UNCHANGED <<deckName, sampleSize, thrown, result, error, cardsInfo, notAnalyzer>>

\* findCards answers with no id: analyzeDeck throws
FindCardsEmpty ==
  /\ pc = "findCards"
  /\ cardIds' = << <<>> >>
  /\ error' = NoCardsError
  /\ pc' = "failed"
  /\ UNCHANGED <<deckName, sampleSize, storeCalls, thrown, result, cardsInfo, notAnalyzer>>

\* findCards answers with ids: the sample is cut and getCardsInfo is called
FindCardsAnswers ==
  /\ pc = "findCards"
  /\ \E ids \in IdLists :
       /\ Len(ids) # 0
       /\ cardIds' = <<ids>>
       /\ storeCalls' = Append(storeCalls,
                               [method |-> "getCardsInfo", deck |-> "",
                                cards |-> sampleCardIds(ids, actualSampleSize(sampleSize, ids))])
  /\ pc' = "getCardsInfo"
  /\ UNCHANGED <<deckName, sampleSize, thrown, result, error, cardsInfo, notAnalyzer>>

\* mutant: a rejected getCardsInfo is tried once more
GetCardsInfoFailsRetries ==
  /\ pc = "getCardsInfo"
  /\ \E e \in StoreErrors :
       /\ thrown' = Append(thrown, e)
       /\ IF Len(storeCalls) < 3
          THEN /\ storeCalls' = Append(storeCalls, storeCalls[Len(storeCalls)])
               /\ UNCHANGED <<pc, error>>
          ELSE /\ error' = e
               /\ pc' = "failed"
               /\ UNCHANGED storeCalls
  /\ UNCHANGED <<deckName, sampleSize, cardIds, result, cardsInfo, notAnalyzer>>

\* getCardsInfo rejects: the await throws and analyzeDeck ends with that error
GetCardsInfoFails ==
  /\ pc = "getCardsInfo"
  /\ \E e \in StoreErrors :
       /\ thrown' = Append(thrown, e)
       /\ error' = e
  /\ pc' = "failed"
  /\ UNCHANGED <<deckName, sampleSize, cardIds, storeCalls, result, cardsInfo, notAnalyzer>>

\* getCardsInfo answers with one card per requested id: the rest of analyzeDeck
GetCardsInfoAnswers ==
  /\ pc = "getCardsInfo"
  /\ \E cards \in CardLists(Len(storeCalls[Len(storeCalls)].cards)) :
       /\ cardsInfo' = <<cards>>
       /\ result' = <<analysisResult(deckName, actualSampleSize(sampleSize, cardIds[1]),
                                     cards)>>
  /\ pc' = "done"
  /\ UNCHANGED <<deckName, sampleSize, cardIds, storeCalls, thrown, error, notAnalyzer>>

\* the caller has the outcome; the analyzer keeps nothing between calls
AnalyzerReturn ==
  /\ pc \in {"done", "failed"}
  /\ pc' = "idle"
  /\ deckName' = ""
  /\ sampleSize' = 0
  /\ cardIds' = <<>>
  /\ cardsInfo' = <<>>
  /\ storeCalls' = <<>>
  /\ thrown' = <<>>
  /\ result' = <<>>
  /\ error' = ""
  /\ UNCHANGED notAnalyzer

AnalyzerNext ==
  \/ AnalyzeDeck
  \/ FindCardsFails
  \/ FindCardsEmpty
  \/ FindCardsAnswers
  \/ GetCardsInfoFails
  \/ GetCardsInfoAnswers
  \/ AnalyzerReturn

AnalyzerSpec == Init /\ [][AnalyzerNext]_vars

(***************************************************************************)
(* Methods of DeckAnalyzer and FieldMapper called on their own             *)
(***************************************************************************)
GetFieldSamples ==
  /\ called = "none"
  /\ \E n \in 0..MaxCards :
       \E cards \in CardLists(n) :
         /\ called' = "getFieldSamples"
         /\ args' = <<cards>>
         /\ returned' = getFieldSamples(cards)
  /\ UNCHANGED notMethod

GenerateReport ==
  /\ called = "none"
  /\ \E res \in AnalysisResults :
       /\ called' = "generateReport"
       /\ args' = <<res>>
       /\ returned' = generateReport(res)
  /\ UNCHANGED notMethod

AnalyzeFieldContent ==
  /\ called = "none"
  /\ \E fieldName \in ClassifiedNames, samples \in SampleLists :
       /\ called' = "analyzeFieldContent"
       /\ args' = <<fieldName, samples>>
       /\ returned' = analyzeFieldContent(fieldName, samples)
  /\ UNCHANGED notMethod

FindBestFieldMatch ==
  /\ called = "none"
  /\ \E fields \in InjectiveSeqs(MatchFieldNames, MaxFields), p \in 1..Len(patterns) :
       \E usedFields \in SUBSET Range(fields) :
         /\ called' = "findBestFieldMatch"
         /\ args' = <<fields, patterns[p].keywords, usedFields>>
         /\ returned' = findBestFieldMatch(fields, patterns[p].keywords, usedFields)
  /\ UNCHANGED notMethod

\* a call-tool request arrives and its handler runs to the end; what the
\* awaited tool method does is the outcome
CallTool ==
  /\ called = "none"
  /\ \E name \in ToolNames, outcome \in ToolOutcomes :
       /\ called' = "callTool"
       /\ args' = <<name, outcome>>
       /\ returned' = callTool(name, outcome)
  /\ UNCHANGED notMethod

\* the caller drops the arguments and the result of a finished call
MethodReturn ==
  /\ called # "none"
  /\ called' = "none"
  /\ args' = <<>>
  /\ returned' = <<>>
  /\ UNCHANGED notMethod

MethodNext ==
  \/ GetFieldSamples
  \/ GenerateReport
  \/ AnalyzeFieldContent
  \/ FindBestFieldMatch
  \/ CallTool
  \/ MethodReturn

MethodSpec == Init /\ [][MethodNext]_vars

(***************************************************************************)
(* AnkiMcpServer: the operations, one step per await.  An invocation runs  *)
(* from one await to the next without interruption; between two awaits of  *)
(* one invocation the steps of the other invocations may run.              *)
(***************************************************************************)
\* the task after the synchronous start of initializeUserConfig:
\* if (!this.userConfig) getNoteTypes is called, otherwise nothing is
initializeUserConfig(task) ==
  IF userConfig = <<>> THEN [task EXCEPT !.pc = "getNoteTypes"]
  ELSE [task EXCEPT !.pc = "initialized"]

\* the configuration configureAnkiSetup assigns to this.userConfig:
\* args.fieldMappings || this.userConfig?.fieldMappings || {}
newUserConfig(taskArgs) ==
  [preferredDeck |-> taskArgs.deck,
   preferredNoteType |-> taskArgs.noteType,
   fieldMappings |-> IF taskArgs.fieldMappings # <<>> THEN taskArgs.fieldMappings[1]
                     ELSE IF userConfig # <<>> THEN userConfig[1].fieldMappings
                     ELSE <<>>]

\* the text configureAnkiSetup returns, by the values it interpolates
configuredResponse(taskArgs) ==
  [text |-> "Anki configuration updated", deck |-> taskArgs.deck,
   noteType |-> taskArgs.noteType, fieldMappings |-> taskArgs.fieldMappings]

\* the text addSmartCard returns, by the values it interpolates
addedResponse(note) ==
  [text |-> "Smart card added successfully!", deck |-> note.deckName,
   noteType |-> note.modelName, fields |-> note.fields]

\* the ids findCards answers for the deck
deckCardIds == [i \in 1..Len(deckCards) |-> i]

\* the cards getCardsInfo answers for the ids
cardsOf(ids) == [i \in 1..Len(ids) |-> deckCards[ids[i]]]

\* a new invocation takes the first slot that is free
FreeSlot(t) ==
  /\ tasks[t].pc = "idle"
  /\ \A u \in Tasks : u < t => tasks[u].pc # "idle"

CallInitializeUserConfig(t) ==
  /\ FreeSlot(t)
  /\ started < MaxCalls
  /\ started' = started + 1
  /\ tasks' = [tasks EXCEPT ![t] =
                 initializeUserConfig([NoTask EXCEPT !.op = "initializeUserConfig"])]
  /\ UNCHANGED <<userConfig, availableNoteTypes, loadConfigCalls, saveConfigCalls,
                 createDeckCalls, addNoteCalls, configFile, deckCards, notServer>>

CallConfigureAnkiSetup(t) ==
  /\ FreeSlot(t)
  /\ started < MaxCalls
  /\ started' = started + 1
  /\ \E a \in ConfigureArgs :
       tasks' = [tasks EXCEPT ![t] =
                   initializeUserConfig([NoTask EXCEPT !.op = "configureAnkiSetup",
                                                       !.args = a])]
  /\ UNCHANGED <<userConfig, availableNoteTypes, loadConfigCalls, saveConfigCalls,
                 createDeckCalls, addNoteCalls, configFile, deckCards, notServer>>

CallAddSmartCard(t) ==
  /\ FreeSlot(t)
  /\ started < MaxCalls
  /\ started' = started + 1
  /\ \E a \in AddSmartCardArgs :
       tasks' = [tasks EXCEPT ![t] =
                   initializeUserConfig([NoTask EXCEPT !.op = "addSmartCard", !.args = a])]
  /\ UNCHANGED <<userConfig, availableNoteTypes, loadConfigCalls, saveConfigCalls,
                 createDeckCalls, addNoteCalls, configFile, deckCards, notServer>>

\* autoConfigureFromDeck starts with analyzeDeck, which calls findCards
CallAutoConfigureFromDeck(t) ==
  /\ FreeSlot(t)
  /\ started < MaxCalls
  /\ started' = started + 1
  /\ \E a \in AutoConfigureArgs :
       tasks' = [tasks EXCEPT ![t] =
                   [NoTask EXCEPT !.op = "autoConfigureFromDeck", !.args = a,
                                  !.pc = "analyzeDeck.findCards"]]
  /\ UNCHANGED <<userConfig, availableNoteTypes, loadConfigCalls, saveConfigCalls,
                 createDeckCalls, addNoteCalls, configFile, deckCards, notServer>>

\* initializeUserConfig: getNoteTypes answers and loadConfig is called
GetNoteTypesAnswers(t) ==
  /\ tasks[t].pc = "getNoteTypes"
  /\ availableNoteTypes' = AnkiNoteTypes
  /\ loadConfigCalls' = loadConfigCalls + 1
  /\ tasks' = [tasks EXCEPT ![t].pc = "loadConfig"]
  /\ UNCHANGED <<userConfig, started, saveConfigCalls, createDeckCalls, addNoteCalls,
                 configFile, deckCards, notServer>>

\* initializeUserConfig: loadConfig answers with the file's configuration,
\* or with the default one if there is no valid file; it never throws
LoadConfigAnswers(t) ==
  /\ tasks[t].pc = "loadConfig"
  /\ userConfig' = <<IF configFile = <<>> THEN DefaultConfig ELSE configFile[1]>>
  /\ tasks' = [tasks EXCEPT ![t].pc = "initialized"]
  /\ UNCHANGED <<availableNoteTypes, started, loadConfigCalls, saveConfigCalls,
                 createDeckCalls, addNoteCalls, configFile, deckCards, notServer>>

\* a direct call of initializeUserConfig resolves
InitializeUserConfigReturns(t) ==
  /\ tasks[t].pc = "initialized"
  /\ tasks[t].op = "initializeUserConfig"
  /\ tasks' = [tasks EXCEPT ![t].pc = "done"]
  /\ UNCHANGED <<userConfig, availableNoteTypes, started, loadConfigCalls,
                 saveConfigCalls, createDeckCalls, addNoteCalls, configFile, deckCards,
                 notServer>>

\* configureAnkiSetup after await this.initializeUserConfig(): createDeck is called
ConfigureCreatesDeck(t) ==
  /\ tasks[t].pc = "initialized"
  /\ tasks[t].op \in {"configureAnkiSetup", "autoConfigureFromDeck"}
  /\ createDeckCalls' = Append(createDeckCalls, tasks[t].args.deck)
  /\ tasks' = [tasks EXCEPT ![t].pc = "createDeck"]
  /\ UNCHANGED <<userConfig, availableNoteTypes, started, loadConfigCalls,
                 saveConfigCalls, addNoteCalls, configFile, deckCards, notServer>>

\* configureAnkiSetup after the try/catch around createDeck: this.userConfig
\* is assigned and saveConfig is called with it
assignAndSave(t, failed) ==
  /\ userConfig' = <<newUserConfig(tasks[t].args)>>
  /\ saveConfigCalls' = Append(saveConfigCalls, newUserConfig(tasks[t].args))
  /\ tasks' = [tasks EXCEPT ![t].pc = "saveConfig",
                            ![t].createDeckFailed = failed,
                            ![t].configBefore = userConfig,
                            ![t].config = <<newUserConfig(tasks[t].args)>>]
  /\ UNCHANGED <<availableNoteTypes, started, loadConfigCalls, createDeckCalls,
                 addNoteCalls, configFile, deckCards, notServer>>

CreateDeckAnswers(t) ==
  /\ tasks[t].pc = "createDeck"
  /\ assignAndSave(t, FALSE)

\* mutant: a failing createDeck ends configureAnkiSetup
CreateDeckFailsThrows(t) ==
  /\ tasks[t].pc = "createDeck"
  /\ tasks' = [tasks EXCEPT ![t].pc = "failed", ![t].error = StoreCallError,
                            ![t].createDeckFailed = TRUE]
  /\ UNCHANGED <<userConfig, availableNoteTypes, started, loadConfigCalls,
                 saveConfigCalls, createDeckCalls, addNoteCalls, configFile, deckCards,
                 notServer>>

\* createDeck throws: the catch logs the error and configureAnkiSetup goes on
CreateDeckFails(t) ==
  /\ tasks[t].pc = "createDeck"
  /\ assignAndSave(t, TRUE)

\* saveConfig resolves: the file holds the configuration and the text is returned
SaveConfigAnswers(t) ==
  /\ tasks[t].pc = "saveConfig"
  /\ configFile' = tasks[t].config
  /\ tasks' = [tasks EXCEPT ![t].pc = "done",
                            ![t].ret = <<configuredResponse(tasks[t].args)>>]
  /\ UNCHANGED <<userConfig, availableNoteTypes, started, loadConfigCalls,
                 saveConfigCalls, createDeckCalls, addNoteCalls, deckCards, notServer>>

\* saveConfig throws: configureAnkiSetup throws what it threw
SaveConfigFails(t) ==
  /\ tasks[t].pc = "saveConfig"
  /\ tasks' = [tasks EXCEPT ![t].pc = "failed", ![t].error = SaveConfigError]
  /\ UNCHANGED <<userConfig, availableNoteTypes, started, loadConfigCalls,
                 saveConfigCalls, createDeckCalls, addNoteCalls, configFile, deckCards,
                 notServer>>

\* the note addSmartCard builds from the mapped fields
noteOf(taskArgs, mappedFields) ==
  [deckName |-> IF taskArgs.deck # "" THEN taskArgs.deck ELSE userConfig[1].preferredDeck,
   modelName |-> IF taskArgs.noteType # "" THEN taskArgs.noteType
                 ELSE userConfig[1].preferredNoteType,
   fields |-> mappedFields,
   tags |-> <<>>]

\* mutant: the note is sent whatever was mapped
AddSmartCardSendsAnyNote(t) ==
  /\ tasks[t].pc = "initialized"
  /\ tasks[t].op = "addSmartCard"
  /\ addNoteCalls' =
       Append(addNoteCalls,
              noteOf(tasks[t].args,
                     applyMapping(userConfig[1].fieldMappings, tasks[t].args.content)))
  /\ tasks' = [tasks EXCEPT ![t].pc = "addNote"]
  /\ UNCHANGED <<userConfig, availableNoteTypes, started, loadConfigCalls,
                 saveConfigCalls, createDeckCalls, configFile, deckCards, notServer>>

\* addSmartCard after await this.initializeUserConfig(), with fields mapped:
\* addNote is called
AddSmartCardSendsNote(t) ==
  /\ tasks[t].pc = "initialized"
  /\ tasks[t].op = "addSmartCard"
  /\ Len(Keys(applyMapping(userConfig[1].fieldMappings, tasks[t].args.content))) # 0
  /\ addNoteCalls' =
       Append(addNoteCalls,
              noteOf(tasks[t].args,
                     applyMapping(userConfig[1].fieldMappings, tasks[t].args.content)))
  /\ tasks' = [tasks EXCEPT ![t].pc = "addNote"]
  /\ UNCHANGED <<userConfig, availableNoteTypes, started, loadConfigCalls,
                 saveConfigCalls, createDeckCalls, configFile, deckCards, notServer>>

\* addSmartCard after await this.initializeUserConfig(), with no field mapped
AddSmartCardNothingMapped(t) ==
  /\ tasks[t].pc = "initialized"
  /\ tasks[t].op = "addSmartCard"
  /\ Len(Keys(applyMapping(userConfig[1].fieldMappings, tasks[t].args.content))) = 0
  /\ tasks' = [tasks EXCEPT ![t].pc = "failed", ![t].error = NoFieldsMappedError]
  /\ UNCHANGED <<userConfig, availableNoteTypes, started, loadConfigCalls,
                 saveConfigCalls, createDeckCalls, addNoteCalls, configFile, deckCards,
                 notServer>>

AddNoteAnswers(t) ==
  /\ tasks[t].pc = "addNote"
  /\ tasks' = [tasks EXCEPT ![t].pc = "done",
                            ![t].ret = <<addedResponse(addNoteCalls[Len(addNoteCalls)])>>]
  /\ UNCHANGED <<userConfig, availableNoteTypes, started, loadConfigCalls,
                 saveConfigCalls, createDeckCalls, addNoteCalls, configFile, deckCards,
                 notServer>>

\* analyzeDeck in autoConfigureFromDeck: findCards answers with no id
AutoConfigureDeckEmpty(t) ==
  /\ tasks[t].pc = "analyzeDeck.findCards"
  /\ Len(deckCardIds) = 0
  /\ tasks' = [tasks EXCEPT ![t].pc = "failed", ![t].error = NoCardsError]
  /\ UNCHANGED <<userConfig, availableNoteTypes, started, loadConfigCalls,
                 saveConfigCalls, createDeckCalls, addNoteCalls, configFile, deckCards,
                 notServer>>

\* analyzeDeck in autoConfigureFromDeck: findCards answers with ids and the
\* sample is fetched
AutoConfigureFetchesSample(t) ==
  /\ tasks[t].pc = "analyzeDeck.findCards"
  /\ Len(deckCardIds) # 0
  /\ tasks' = [tasks EXCEPT ![t].pc = "analyzeDeck.getCardsInfo"]
  /\ UNCHANGED <<userConfig, availableNoteTypes, started, loadConfigCalls,
                 saveConfigCalls, createDeckCalls, addNoteCalls, configFile, deckCards,
                 notServer>>

\* what analyzeDeck(args.deck) returns on the deck in the store
deckAnalysis(taskArgs) ==
  analysisResult(taskArgs.deck,
                 actualSampleSize(DefaultSampleSize, deckCardIds),
                 cardsOf(sampleCardIds(deckCardIds,
                                       actualSampleSize(DefaultSampleSize, deckCardIds))))

\* mutant: the suggested configuration is applied without confirm
AutoConfigureReportsAndApplies(t) ==
  /\ tasks[t].pc = "analyzeDeck.getCardsInfo"
  /\ tasks[t].args.confirm \in {<<>>, <<FALSE>>}
  /\ userConfig' = <<[preferredDeck |-> tasks[t].args.deck,
                      preferredNoteType |-> deckAnalysis(tasks[t].args).primaryNoteType,
                      fieldMappings |-> deckAnalysis(tasks[t].args).suggestedMappings]>>
  /\ tasks' = [tasks EXCEPT
                 ![t].pc = "done",
                 ![t].analysis = <<deckAnalysis(tasks[t].args)>>,
                 ![t].ret = <<generateReport(deckAnalysis(tasks[t].args))
                              \o <<literal(ConfirmInstruction)>> >>]
  /\ UNCHANGED <<availableNoteTypes, started, loadConfigCalls,
                 saveConfigCalls, createDeckCalls, addNoteCalls, configFile, deckCards,
                 notServer>>

\* autoConfigureFromDeck without confirm: the report and the instruction
AutoConfigureReports(t) ==
  /\ tasks[t].pc = "analyzeDeck.getCardsInfo"
  /\ tasks[t].args.confirm \in {<<>>, <<FALSE>>}
  /\ tasks' = [tasks EXCEPT
                 ![t].pc = "done",
                 ![t].analysis = <<deckAnalysis(tasks[t].args)>>,
                 ![t].ret = <<generateReport(deckAnalysis(tasks[t].args))
                              \o <<literal(ConfirmInstruction)>> >>]
  /\ UNCHANGED <<userConfig, availableNoteTypes, started, loadConfigCalls,
                 saveConfigCalls, createDeckCalls, addNoteCalls, configFile, deckCards,
                 notServer>>

\* autoConfigureFromDeck with confirm: findCards is called again
AutoConfigureConfirmed(t) ==
  /\ tasks[t].pc = "analyzeDeck.getCardsInfo"
  /\ tasks[t].args.confirm = <<TRUE>>
  /\ tasks' = [tasks EXCEPT ![t].pc = "findCards",
                            ![t].analysis = <<deckAnalysis(tasks[t].args)>>]
  /\ UNCHANGED <<userConfig, availableNoteTypes, started, loadConfigCalls,
                 saveConfigCalls, createDeckCalls, addNoteCalls, configFile, deckCards,
                 notServer>>

\* autoConfigureFromDeck with confirm: getCardsInfo([cardIds[0]]) is called
AutoConfigureFetchesFirstCard(t) ==
  /\ tasks[t].pc = "findCards"
  /\ tasks' = [tasks EXCEPT ![t].pc = "getCardsInfo"]
  /\ UNCHANGED <<userConfig, availableNoteTypes, started, loadConfigCalls,
                 saveConfigCalls, createDeckCalls, addNoteCalls, configFile, deckCards,
                 notServer>>

\* autoConfigureFromDeck with confirm: configureAnkiSetup is called with the
\* deck, cardsInfo[0].modelName and the suggested mappings
AutoConfigureConfigures(t) ==
  /\ tasks[t].pc = "getCardsInfo"
  /\ tasks' = [tasks EXCEPT ![t] =
       initializeUserConfig(
         [tasks[t] EXCEPT
            !.args = [tasks[t].args EXCEPT
                        !.noteType = cardsOf(<<deckCardIds[1]>>)[1].modelName,
                        !.fieldMappings = <<tasks[t].analysis[1].suggestedMappings>>]])]
  /\ UNCHANGED <<userConfig, availableNoteTypes, started, loadConfigCalls,
                 saveConfigCalls, createDeckCalls, addNoteCalls, configFile, deckCards,
                 notServer>>

\* a call of the card store outside configureAnkiSetup's try throws: the
\* operation throws what it threw
StoreCallFails(t) ==
  /\ tasks[t].pc \in {"getNoteTypes", "addNote", "analyzeDeck.findCards",
                      "analyzeDeck.getCardsInfo", "findCards", "getCardsInfo"}
  /\ tasks' = [tasks EXCEPT ![t].pc = "failed", ![t].error = StoreCallError]
  /\ UNCHANGED <<userConfig, availableNoteTypes, started, loadConfigCalls,
                 saveConfigCalls, createDeckCalls, addNoteCalls, configFile, deckCards,
                 notServer>>

\* the caller takes the result or the error of a finished invocation
ServerReturn(t) ==
  /\ tasks[t].pc \in {"done", "failed"}
  /\ tasks' = [tasks EXCEPT ![t] = NoTask]
  /\ UNCHANGED <<userConfig, availableNoteTypes, started, loadConfigCalls,
                 saveConfigCalls, createDeckCalls, addNoteCalls, configFile, deckCards,
                 notServer>>

ServerNext ==
  \/ \E t \in Tasks : CallInitializeUserConfig(t)
  \/ \E t \in Tasks : CallConfigureAnkiSetup(t)
  \/ \E t \in Tasks : CallAddSmartCard(t)
  \/ \E t \in Tasks : CallAutoConfigureFromDeck(t)
  \/ \E t \in Tasks : GetNoteTypesAnswers(t)
  \/ \E t \in Tasks : LoadConfigAnswers(t)
  \/ \E t \in Tasks : InitializeUserConfigReturns(t)
  \/ \E t \in Tasks : ConfigureCreatesDeck(t)
  \/ \E t \in Tasks : CreateDeckAnswers(t)
  \/ \E t \in Tasks : CreateDeckFails(t)
  \/ \E t \in Tasks : SaveConfigAnswers(t)
  \/ \E t \in Tasks : SaveConfigFails(t)
  \/ \E t \in Tasks : AddSmartCardSendsNote(t)
  \/ \E t \in Tasks : AddSmartCardNothingMapped(t)
  \/ \E t \in Tasks : AddNoteAnswers(t)
  \/ \E t \in Tasks : AutoConfigureDeckEmpty(t)
  \/ \E t \in Tasks : AutoConfigureFetchesSample(t)
  \/ \E t \in Tasks : AutoConfigureReports(t)
  \/ \E t \in Tasks : AutoConfigureConfirmed(t)
  \/ \E t \in Tasks : AutoConfigureFetchesFirstCard(t)
  \/ \E t \in Tasks : AutoConfigureConfigures(t)
  \/ \E t \in Tasks : StoreCallFails(t)
  \/ \E t \in Tasks : ServerReturn(t)

ServerSpec == ServerInit /\ [][ServerNext]_vars

(***************************************************************************)
(* Properties of the FieldMapper (checked under Spec)                      *)
(***************************************************************************)
\* the pattern of a semantic label
PatternOf(semantic) ==
  patterns[CHOOSE p \in 1..Len(patterns) : patterns[p].semantic = semantic]

\* field equals, case-insensitively, a keyword of the pattern
EqualsKeyword(field, pattern) ==
  \E k \in 1..Len(pattern.keywords) : toLowerCase(field) = toLowerCase(pattern.keywords[k])

\* field matches a keyword of the pattern in one of the three tiers
MatchesKeyword(field, pattern) ==
  \E k \in 1..Len(pattern.keywords) :
    LET f == toLowerCase(field)
        kw == toLowerCase(pattern.keywords[k])
    IN \/ f = kw
       \/ includes(f, kw) /\ Len(kw) > 2
       \/ includes(kw, f) /\ Len(f) >= 4 /\ Len(kw) - Len(f) <= 3

NoKeywordMatch(fields) ==
  \A i \in 1..Len(fields), p \in 1..Len(patterns) : ~MatchesKeyword(fields[i], patterns[p])

\* the text has a character that is not white space
NonBlank(text) == \E i \in 1..Len(text) : text[i] \notin WhiteSpace

\* C1: for a schema of at least two fields none of which matches a keyword of
\* any pattern, suggestMappings returns exactly primary -> fields[0] and
\* secondary -> fields[1]
C1_NoMatchFallback ==
  (op = "suggestMappings" /\ Len(noteType.fields) >= 2 /\ NoKeywordMatch(noteType.fields))
    => ret = << <<"primary", noteType.fields[1]>>, <<"secondary", noteType.fields[2]>> >>

C1_Witness ==
  /\ op = "suggestMappings"
  /\ Len(noteType.fields) = 3
  /\ NoKeywordMatch(noteType.fields)
  /\ ret = << <<"primary", noteType.fields[1]>>, <<"secondary", noteType.fields[2]>> >>

\* C2: validateMapping is false exactly when a target is not a field of the
\* schema or two labels share a target, and true for the empty mapping
C2_ValidateIff ==
  op = "validateMapping" =>
    /\ ret \in BOOLEAN
    /\ ret = FALSE <=>
         \/ \E e \in 1..Len(mapping) : mapping[e][2] \notin Range(noteType.fields)
         \/ \E d, e \in 1..Len(mapping) : d # e /\ mapping[d][2] = mapping[e][2]
    /\ mapping = <<>> => ret = TRUE

C2_Witness ==
  /\ op = "validateMapping"
  /\ ret = FALSE
  /\ Len(mapping) = 2
  /\ mapping[1][2] = mapping[2][2]
  /\ mapping[1][2] \in Range(noteType.fields)

\* the contents that applyMapping merges into field: the non-blank texts, in
\* the content's order, of the labels mapped to field
RECURSIVE MergedTexts(_, _, _, _)
MergedTexts(m, c, field, e) ==
  IF e > Len(c) THEN <<>>
  ELSE IF RecGet(m, c[e][1]) = <<field>> /\ NonBlank(c[e][2])
  THEN <<c[e][2]>> \o MergedTexts(m, c, field, e + 1)
  ELSE MergedTexts(m, c, field, e + 1)

RECURSIVE JoinWith(_, _)
JoinWith(texts, separator) ==
  IF Len(texts) = 1 THEN texts[1]
  ELSE texts[1] \o separator \o JoinWith(Tail(texts), separator)

\* C3 as claimed: the texts of labels that share a target field are joined
\* by a single newline character, in the content's order
C3_JoinedByNewline ==
  op = "applyMapping" =>
    \A i \in 1..Len(ret) :
      Len(MergedTexts(mapping, semanticContent, ret[i][1], 1)) >= 2 =>
        ret[i][2] = JoinWith(MergedTexts(mapping, semanticContent, ret[i][1], 1), <<"\n">>)

\* C4: the keys of applyMapping's result are exactly the target fields of
\* the content's labels that have a mapping and a non-blank text, each once,
\* and no value is the empty string
C4_AppliedKeys ==
  op = "applyMapping" =>
    /\ Range(Keys(ret)) =
         {RecGet(mapping, semanticContent[e][1])[1] :
            e \in {d \in 1..Len(semanticContent) :
                     /\ RecHas(mapping, semanticContent[d][1])
                     /\ NonBlank(semanticContent[d][2])}}
    /\ \A i, j \in 1..Len(ret) : i # j => ret[i][1] # ret[j][1]
    /\ \A i \in 1..Len(ret) : ret[i][2] # <<>>

C4_Witness ==
  /\ op = "applyMapping"
  /\ Len(ret) = 1
  /\ \E e \in 1..Len(semanticContent) : ~RecHas(mapping, semanticContent[e][1])
  /\ \E e \in 1..Len(semanticContent) :
       /\ RecHas(mapping, semanticContent[e][1])
       /\ semanticContent[e][2] = <<" ">>
  /\ \E e \in 1..Len(semanticContent) : semanticContent[e][2] = <<" ", "Q", " ">>

\* the least element of a non-empty set of integers
Least(S) == CHOOSE i \in S : \A j \in S : i <= j

\* C8: a label with a keyword that some field equals (case-insensitively) is
\* mapped to the first such field in declared order
C8_ExactMatchWins ==
  op = "suggestMappings" =>
    \A p \in 1..Len(patterns) :
      LET exact == {i \in 1..Len(noteType.fields) :
                      EqualsKeyword(noteType.fields[i], patterns[p])}
      IN exact # {} =>
           RecGet(ret, patterns[p].semantic) = <<noteType.fields[Least(exact)]>>

C8_Witness ==
  /\ op = "suggestMappings"
  /\ \E p \in 1..Len(patterns) :
       LET exact == {i \in 1..Len(noteType.fields) :
                       EqualsKeyword(noteType.fields[i], patterns[p])}
       IN /\ Cardinality(exact) >= 2
          /\ 1 \notin exact
          /\ MatchesKeyword(noteType.fields[1], patterns[p])
          /\ RecGet(ret, patterns[p].semantic) = <<noteType.fields[Least(exact)]>>

\* C9: the fallback of suggestMappings is positional: a 'primary' left
\* unmapped by the two passes gets fields[0] or nothing, a 'secondary' left
\* unmapped gets fields[1] or nothing, and each stays absent when that field
\* is already used
C9_PositionalFallback ==
  op = "suggestMappings" =>
    LET fields == noteType.fields
        st == mappingPasses(fields)
        othersOf(semantic) == {ret[i][2] : i \in {j \in 1..Len(ret) : ret[j][1] # semantic}}
    IN /\ ~RecHas(st.mappings, "primary") =>
            /\ RecHas(ret, "primary") => RecGet(ret, "primary") = <<fields[1]>>
            /\ (Len(fields) >= 1 /\ fields[1] \in st.usedFields) => ~RecHas(ret, "primary")
       /\ ~RecHas(st.mappings, "secondary") =>
            /\ RecHas(ret, "secondary") => RecGet(ret, "secondary") = <<fields[2]>>
            /\ (Len(fields) >= 2 /\ fields[2] \in othersOf("secondary"))
                 => ~RecHas(ret, "secondary")

C9_Witness ==
  /\ op = "suggestMappings"
  /\ Len(noteType.fields) >= 2
  /\ ~RecHas(ret, "primary")
  /\ \E i \in 1..Len(ret) : ret[i][2] = noteType.fields[1]
  /\ \E i \in 1..Len(noteType.fields) :
       \A j \in 1..Len(ret) : ret[j][2] # noteType.fields[i]

\* C10: in getSuggestionDetails, when no field matches a keyword of
\* 'primary' and a field is unused after the pass, 'primary' gets the first
\* unused field with confidence 0.3; afterwards 'secondary', if it has no
\* keyword entry, gets the next unused field with confidence 0.3; an entry
\* that comes from a keyword match has a confidence above 0.5
C10_SuggestionFallback ==
  op = "getSuggestionDetails" =>
    LET fields == noteType.fields
        matched == {i \in 1..Len(ret) :
                      MatchesKeyword(ret[i].field, PatternOf(ret[i].semantic))}
        used1 == {ret[i].field : i \in matched}
        unused1 == {i \in 1..Len(fields) : fields[i] \notin used1}
        primaryFalls ==
          /\ \A i \in 1..Len(fields) : ~MatchesKeyword(fields[i], PatternOf("primary"))
          /\ unused1 # {}
        used2 == IF primaryFalls THEN used1 \cup {fields[Least(unused1)]} ELSE used1
        unused2 == {i \in 1..Len(fields) : fields[i] \notin used2}
        secondaryFalls ==
          /\ \A i \in matched : ret[i].semantic # "secondary"
          /\ unused2 # {}
        primaryEntry == [semantic |-> "primary", field |-> fields[Least(unused1)],
                         confidence |-> FallbackConfidence]
        secondaryEntry == [semantic |-> "secondary", field |-> fields[Least(unused2)],
                           confidence |-> FallbackConfidence]
    IN /\ primaryFalls => \E i \in 1..Len(ret) : ret[i] = primaryEntry
       /\ secondaryFalls => ret[Len(ret)] = secondaryEntry
       /\ (primaryFalls /\ secondaryFalls) => ret[Len(ret) - 1] = primaryEntry
       /\ \A i \in matched : ret[i].confidence > 5

C10_Witness ==
  /\ op = "getSuggestionDetails"
  /\ Len(noteType.fields) = 3
  /\ Len(ret) = 3
  /\ ret[1].field = noteType.fields[1]
  /\ ret[1].confidence > 5
  /\ ret[2] = [semantic |-> "primary", field |-> noteType.fields[2],
               confidence |-> FallbackConfidence]
  /\ ret[3] = [semantic |-> "secondary", field |-> noteType.fields[3],
               confidence |-> FallbackConfidence]

\* C25: for a schema of pairwise different field names the mapping
\* suggestMappings returns is valid for the schema: every target is a field
\* of the schema, no field is the target of two labels, and validateMapping
\* of the schema and the mapping is true
C25_SuggestedMappingValid ==
  op = "suggestMappings" =>
    /\ \A e \in 1..Len(ret) : ret[e][2] \in Range(noteType.fields)
    /\ \A d, e \in 1..Len(ret) : d # e => ret[d][2] # ret[e][2]
    /\ validateMapping(noteType, ret) = TRUE

\* the first field is taken by a keyword match of another label, 'primary'
\* has no match: the fallback leaves 'primary' out and gives 'secondary'
\* the second field
C25_Witness ==
  /\ op = "suggestMappings"
  /\ Len(noteType.fields) = 3
  /\ Len(ret) = 2
  /\ ~RecHas(ret, "primary")
  /\ \E e \in 1..Len(ret) : ret[e][1] # "secondary" /\ ret[e][2] = noteType.fields[1]
  /\ RecGet(ret, "secondary") = <<noteType.fields[2]>>
  /\ ~MatchesKeyword(noteType.fields[2], PatternOf("secondary"))
  /\ validateMapping(noteType, ret) = TRUE

\* the position of a label in the pattern table
PatternIndex(semantic) == CHOOSE p \in 1..Len(patterns) : patterns[p].semantic = semantic

\* C26: for a schema of pairwise different field names the entries of
\* getSuggestionDetails have pairwise different labels and pairwise
\* different fields, every field is one of the schema, the entries of
\* keyword matches come first in pattern order, followed by at most the
\* fallback entry of 'primary' and then that of 'secondary', and every
\* confidence is 0.3, 0.6, 0.8 or 1.0
C26_SuggestionEntries ==
  op = "getSuggestionDetails" =>
    LET byKeyword == {i \in 1..Len(ret) : ret[i].confidence # FallbackConfidence}
        byFallback == {i \in 1..Len(ret) : ret[i].confidence = FallbackConfidence}
    IN /\ \A i, j \in 1..Len(ret) :
            i # j => ret[i].semantic # ret[j].semantic /\ ret[i].field # ret[j].field
       /\ \A i \in 1..Len(ret) :
            /\ ret[i].field \in Range(noteType.fields)
            /\ ret[i].confidence \in {FallbackConfidence, ContainedConfidence,
                                      ContainsConfidence, ExactConfidence}
       /\ \A i \in byKeyword, j \in byFallback : i < j
       /\ \A i, j \in byKeyword :
            i < j => PatternIndex(ret[i].semantic) < PatternIndex(ret[j].semantic)
       /\ \A i \in byFallback : ret[i].semantic \in {"primary", "secondary"}
       /\ \A i, j \in byFallback :
            i < j => ret[i].semantic = "primary" /\ ret[j].semantic = "secondary"

\* two keyword entries in pattern order, then the fallback entry of 'primary'
C26_Witness ==
  /\ op = "getSuggestionDetails"
  /\ Len(ret) = 3
  /\ ret[1].confidence > FallbackConfidence
  /\ ret[2].confidence > FallbackConfidence
  /\ ret[1].confidence # ret[2].confidence
  /\ PatternIndex(ret[1].semantic) < PatternIndex(ret[2].semantic)
  /\ ret[3].semantic = "primary"
  /\ ret[3].confidence = FallbackConfidence

(***************************************************************************)
(* Properties of DeckAnalyzer.analyzeDeck (checked under AnalyzerSpec)     *)
(***************************************************************************)
\* C5: when findCards answers with no id, analyzeDeck fails with the "no
\* cards" error and getCardsInfo is not called
C5_EmptyDeckNoFetch ==
  cardIds = << <<>> >> =>
    /\ pc = "failed"
    /\ error = NoCardsError
    /\ \A i \in 1..Len(storeCalls) : storeCalls[i].method # "getCardsInfo"

C5_Witness ==
  /\ cardIds = << <<>> >>
  /\ pc = "failed"
  /\ Len(storeCalls) = 1

\* C6: for a positive requested size and a non-empty id list, getCardsInfo is
\* called once, with the first min(requested, number of ids) ids in the
\* store's order, and that minimum is the sampleSize of the result
C6_SampleIsPrefix ==
  (pc \in {"getCardsInfo", "done"} /\ sampleSize > 0) =>
    LET ids == cardIds[1]
        n == IF sampleSize < Len(ids) THEN sampleSize ELSE Len(ids)
    IN /\ Len(storeCalls) = 2
       /\ storeCalls[2].method = "getCardsInfo"
       /\ storeCalls[2].cards = [i \in 1..n |-> ids[i]]
       /\ pc = "done" => result[1].sampleSize = n

C6_Witness ==
  /\ pc = "done"
  /\ Len(cardIds[1]) = 2
  /\ cardIds[1][1] > cardIds[1][2]
  /\ sampleSize > 2
  /\ storeCalls[2].cards = cardIds[1]
  /\ result[1].sampleSize = 2

\* C7: analyzeDeck calls the store at most twice, findCards first and then,
\* only after a non-empty answer, getCardsInfo once; a failure of a call is
\* not retried, ends analyzeDeck with that very failure and is followed by
\* no further call
C7_TwoCallsNoRetry ==
  /\ [](/\ Len(storeCalls) <= 2
        /\ pc # "idle" => (Len(storeCalls) >= 1 /\ storeCalls[1].method = "findCards")
        /\ Len(storeCalls) = 2 =>
             /\ storeCalls[2].method = "getCardsInfo"
             /\ cardIds # <<>>
             /\ Len(cardIds[1]) >= 1
        /\ thrown # <<>> => (Len(thrown) = 1 /\ pc = "failed" /\ error = thrown[1]))
  /\ [][pc = "failed" => Len(storeCalls') <= Len(storeCalls)]_vars

C7_Witness ==
  /\ pc = "failed"
  /\ Len(storeCalls) = 2
  /\ thrown # <<>>
  /\ error = thrown[1]

\* the labels analyzeFieldContent can give
ClassificationLabels ==
  {"English expressions or pronunciation", "Pronunciation or phonetic information",
   "Usage examples or sample sentences", "Meaning or translation",
   "Detailed explanation or description", "Grammar information",
   "Synonyms or related words", "Word collocations", "Likely pronunciation symbols",
   "Examples or usage demonstrations", "Long detailed explanations",
   "Short words or phrases", "General content (purpose unclear)"}

\* the field names the cards declare
DeclaredNames(cards) ==
  UNION {Range(Keys(cards[c].fields)) : c \in 1..Len(cards)}

\* no card holds a non-blank value for the name
AllBlank(cards, name) ==
  \A c \in 1..Len(cards) : \A f \in 1..Len(cards[c].fields) :
    cards[c].fields[f][1] = name => ~NonBlank(cards[c].fields[f][2])

\* C12: the fieldAnalysis of the analyzeDeck result has exactly one entry
\* for every field name declared by at least one sampled record, each with a
\* classification label, also for a field whose values are all blank
C12_EveryDeclaredFieldAnalyzed ==
  (pc = "done" /\ cardsInfo # <<>>) =>
    LET analysis == result[1].fieldAnalysis
    IN /\ Range(Keys(analysis)) = DeclaredNames(cardsInfo[1])
       /\ \A i, j \in 1..Len(analysis) : analysis[i][1] = analysis[j][1] => i = j
       /\ \A i \in 1..Len(analysis) : analysis[i][2] \in ClassificationLabels

\* a sample of two cards whose Back is blank throughout: Back is analyzed
C12_Witness ==
  /\ pc = "done"
  /\ cardsInfo # <<>>
  /\ Len(cardsInfo[1]) = 2
  /\ Back \in DeclaredNames(cardsInfo[1])
  /\ AllBlank(cardsInfo[1], Back)
  /\ RecGet(result[1].fieldAnalysis, Back) = <<"General content (purpose unclear)">>

\* the number of cards of the type
Occurrences(cards, type) == Cardinality({c \in 1..Len(cards) : cards[c].modelName = type})

ValuesIn(fields, name) ==
  LET named == SelectSeq(fields, LAMBDA entry : entry[1] = name)
  IN [i \in 1..Len(named) |-> named[i][2]]

\* the values the cards hold for the name, in record order
RECURSIVE FieldValues(_, _)
FieldValues(cards, name) ==
  IF cards = <<>> THEN <<>>
  ELSE ValuesIn(Head(cards).fields, name) \o FieldValues(Tail(cards), name)

\* the non-blank values, each cut to its first MaxSampleLength characters
Stored(values) ==
  LET kept == SelectSeq(values, NonBlank)
  IN [i \in 1..Len(kept) |->
        IF Len(kept[i]) > MaxSampleLength THEN SubSeq(kept[i], 1, MaxSampleLength)
        ELSE kept[i]]

\* C11: getFieldSamples stores for every field, in record order, each
\* non-blank value the records hold for it: a value of more than 50
\* characters as exactly its first 50 characters, a shorter one unchanged,
\* and a blank value not at all
C11_SamplesStored ==
  called = "getFieldSamples" =>
    /\ \A e \in 1..Len(returned) :
         returned[e][2] = Stored(FieldValues(args[1], returned[e][1]))
    /\ \A c \in 1..Len(args[1]) : \A f \in 1..Len(args[1][c].fields) :
         NonBlank(args[1][c].fields[f][2]) => RecHas(returned, args[1][c].fields[f][1])

\* a call with a value of 51 characters, one of 50, a short one and a blank one
C11_Witness ==
  /\ called = "getFieldSamples"
  /\ Len(args[1]) = 2
  /\ args[1][1].fields = << <<Front, Numbered(51)>>, <<Back, <<" ">> >> >>
  /\ args[1][2].fields = << <<Text, Numbered(50)>>, <<Front, <<"H","i">> >> >>
  /\ returned = << <<Front, <<Numbered(50), <<"H","i">> >> >>,
                   <<Back, <<>> >>,
                   <<Text, <<Numbered(50)>> >> >>

\* the connective of a mapping item: a space, a rightwards arrow, a space
Arrow == <<" ", "U+2192", " ">>

\* the items of the Field Analysis section
AnalysisItems(fieldAnalysis) ==
  [e \in 1..Len(fieldAnalysis) |->
     <<literal(ItemStart), literal(fieldAnalysis[e][1]), literal(Colon),
       interpolated(fieldAnalysis[e][2]), literal(LineEnd)>>]

\* the items of the Suggested Semantic Mappings section
MappingItems(suggestedMappings, connective) ==
  [e \in 1..Len(suggestedMappings) |->
     <<literal(ItemStart), interpolated(suggestedMappings[e][1]), literal(connective),
       literal(suggestedMappings[e][2]), literal(LineEnd)>>]

RECURSIVE Flatten(_)
Flatten(seqs) == IF seqs = <<>> THEN <<>> ELSE Head(seqs) \o Flatten(Tail(seqs))

\* the report of a result, with the given connective in the mapping items
Layout(res, connective) ==
  <<literal(ReportHeader),
    literal(DeckLine), interpolated(res.deckName), literal(LineEnd),
    literal(SampleSizeLine), literal(numberToString(res.sampleSize)), literal(LineEnd),
    literal(PrimaryNoteTypeLine), interpolated(res.primaryNoteType), literal(BlankLineEnd),
    literal(FieldAnalysisHeading)>>
  \o Flatten(AnalysisItems(res.fieldAnalysis))
  \o <<literal(MappingsHeading)>>
  \o (IF res.suggestedMappings = <<>> THEN <<literal(NoMappingsLine)>>
      ELSE Flatten(MappingItems(res.suggestedMappings, connective)))

\* C14: generateReport emits the header, the collection name, the sample
\* size, the dominant type, the 'Field Analysis' heading with one
\* '- field: label' item per fieldAnalysis entry in entry order, then the
\* 'Suggested Semantic Mappings' heading with one '- label -> field' item
\* (the connective being the rightwards arrow U+2192) per mapping entry, or
\* the sentinel 'No semantic mappings suggested' iff the mapping is empty
C14_ReportLayout ==
  called = "generateReport" => returned = Layout(args[1], Arrow)

\* the same layout with the connective the source file holds
C14_LayoutWithSourceConnective ==
  called = "generateReport" => returned = Layout(args[1], MappingConnective)

\* the confidence of one field for the keywords
Confidence(field, keywords) == keywordLoop(toLowerCase(field), keywords, 1, 0)

\* C19: findBestFieldMatch returns, among the fields not in the used set,
\* the first field in declared order whose confidence is the maximum over
\* those fields, provided that maximum is greater than 0; it never returns a
\* used field, and it returns no field exactly when every unused field has
\* confidence 0 or there is no unused field
C19_FirstBestUnused ==
  called = "findBestFieldMatch" =>
    LET fields == args[1]
        keywords == args[2]
        usedFields == args[3]
        unused == {i \in 1..Len(fields) : fields[i] \notin usedFields}
        matching == {i \in unused : Confidence(fields[i], keywords) > 0}
        best == {i \in matching : \A j \in unused :
                   Confidence(fields[j], keywords) <= Confidence(fields[i], keywords)}
    IN /\ returned.field = <<>> <=> matching = {}
       /\ matching # {} =>
            /\ returned.field = <<fields[Least(best)]>>
            /\ returned.confidence = Confidence(fields[Least(best)], keywords)
       /\ returned.field # <<>> => returned.field[1] \notin usedFields

\* an exact match is used and two unused fields share the highest confidence
\* left: the earlier of the two is returned
C19_Witness ==
  /\ called = "findBestFieldMatch"
  /\ args[1] = <<Front, FrontSide, WordMeaning>>
  /\ args[2] = patterns[1].keywords
  /\ args[3] = {Front}
  /\ returned = [field |-> <<FrontSide>>, confidence |-> ContainsConfidence]

\* the rules of analyzeFieldContent on the field name, in rule order
NameRules ==
  << [substrings |-> {<<"e","x","p","r","e","s","s","i","o","n">>, <<"p","r","o","n","u","n","c","i","a","t","i","o","n">>},
      label |-> "English expressions or pronunciation"],
     [substrings |-> {<<"p","h","o","n","e","t","i","c">>, <<"p","r","o","n","u","n","c","i","a","t","i","o","n">>},
      label |-> "Pronunciation or phonetic information"],
     [substrings |-> {<<"e","x","a","m","p","l","e">>, <<"s","e","n","t","e","n","c","e">>},
      label |-> "Usage examples or sample sentences"],
     [substrings |-> {<<"m","e","a","n","i","n","g">>, <<"t","r","a","n","s","l","a","t","i","o","n">>},
      label |-> "Meaning or translation"],
     [substrings |-> {<<"e","x","p","l","a","n","a","t","i","o","n">>, <<"d","e","s","c","r","i","p","t","i","o","n">>},
      label |-> "Detailed explanation or description"],
     [substrings |-> {<<"g","r","a","m","m","a","r">>},
      label |-> "Grammar information"],
     [substrings |-> {<<"s","y","n","o","n","y","m">>, <<"r","e","l","a","t","e","d">>},
      label |-> "Synonyms or related words"],
     [substrings |-> {<<"c","o","l","l","o","c","a","t","i","o","n">>},
      label |-> "Word collocations"] >>

\* the labels of the rules on the content
ContentRuleLabels ==
  {"Likely pronunciation symbols", "Examples or usage demonstrations",
   "Long detailed explanations", "Short words or phrases",
   "General content (purpose unclear)"}

\* the name rules the field name matches
MatchedNameRules(fieldName) ==
  {r \in 1..Len(NameRules) :
     \E s \in NameRules[r].substrings : includes(toLowerCase(fieldName), s)}

\* C20: analyzeFieldContent is a first-match-wins cascade in which every
\* rule on the field name comes before every rule on the content: if the
\* lowercased name contains a substring of a name rule, the label is that of
\* the first such rule whatever the samples are, and a label of a content
\* rule is given only when no name rule matches
C20_NameRulesFirst ==
  called = "analyzeFieldContent" =>
    LET matched == MatchedNameRules(args[1])
    IN IF matched # {} THEN returned = NameRules[Least(matched)].label
       ELSE returned \in ContentRuleLabels

\* a name that matches the third and the fourth name rule, with samples the
\* slash rule matches: the third name rule decides
C20_Witness ==
  /\ called = "analyzeFieldContent"
  /\ MatchedNameRules(args[1]) = {3, 4}
  /\ args[2] = <<Slashed>>
  /\ slashPattern(toLowerCase(join(args[2])))
  /\ returned = "Usage examples or sample sentences"

\* the lowercased field name contains the word
NameContains(fieldName, word) == includes(toLowerCase(fieldName), word)

\* C21: for every field name that contains 'pronunciation', whatever its
\* case, analyzeFieldContent returns 'English expressions or pronunciation';
\* 'Pronunciation or phonetic information' is returned only for names that
\* contain 'phonetic' and neither 'expression' nor 'pronunciation'
C21_PronunciationIsRule1 ==
  called = "analyzeFieldContent" =>
    /\ NameContains(args[1], <<"p","r","o","n","u","n","c","i","a","t","i","o","n">>)
         => returned = "English expressions or pronunciation"
    /\ returned = "Pronunciation or phonetic information"
         => /\ NameContains(args[1], <<"p","h","o","n","e","t","i","c">>)
            /\ ~NameContains(args[1], <<"e","x","p","r","e","s","s","i","o","n">>)
            /\ ~NameContains(args[1], <<"p","r","o","n","u","n","c","i","a","t","i","o","n">>)

\* a name with 'phonetic' and 'pronunciation' gets the label of rule 1
C21_Witness ==
  /\ called = "analyzeFieldContent"
  /\ args[1] = <<"P","h","o","n","e","t","i","c"," ","P","r","o","n","u","n","c","i","a","t","i","o","n">>
  /\ returned = "English expressions or pronunciation"

\* two slashes with no line terminator between them
SlashDelimited(str) ==
  \E i, j \in 1..Len(str) :
    i < j /\ str[i] = "/" /\ str[j] = "/"
          /\ \A k \in (i + 1)..(j - 1) : str[k] \notin LineTerminators

\* the samples joined by single spaces
RECURSIVE Concatenation(_)
Concatenation(samples) ==
  IF samples = <<>> THEN <<>>
  ELSE IF Len(samples) = 1 THEN samples[1]
  ELSE samples[1] \o <<" ">> \o Concatenation(Tail(samples))

\* C22: when no rule on the field name matches, analyzeFieldContent decides
\* on the content in this order: a slash ... slash pattern in the lowercased
\* concatenation of the samples, then 'example:' or 'usage:' in it, then a
\* sample longer than 100 characters, then a sample shorter than 20
\* characters, and otherwise (an empty sample list included) the generic label
C22_ContentRuleOrder ==
  (called = "analyzeFieldContent" /\ MatchedNameRules(args[1]) = {}) =>
    LET samples == args[2]
        content == toLowerCase(Concatenation(samples))
    IN returned =
         IF SlashDelimited(content) THEN "Likely pronunciation symbols"
         ELSE IF includes(content, <<"e","x","a","m","p","l","e",":">>) \/ includes(content, <<"u","s","a","g","e",":">>)
         THEN "Examples or usage demonstrations"
         ELSE IF \E i \in 1..Len(samples) : Len(samples[i]) > 100
         THEN "Long detailed explanations"
         ELSE IF \E i \in 1..Len(samples) : Len(samples[i]) < 20
         THEN "Short words or phrases"
         ELSE "General content (purpose unclear)"

\* a sample of 101 characters and one of 2 characters: the long rule decides
C22_Witness ==
  /\ called = "analyzeFieldContent"
  /\ args[1] = Front
  /\ args[2] = <<Numbered(101), <<"H","i">> >>
  /\ returned = "Long detailed explanations"

\* C27: within analyzeDeck no field is classified as 'Long detailed
\* explanations', whatever records the store returns: every sample the
\* classifier is given has at most 50 characters, so its rule on samples of
\* more than 100 characters does not apply
C27_NeverLong ==
  pc = "done" =>
    /\ \A e \in 1..Len(result[1].fieldAnalysis) :
         result[1].fieldAnalysis[e][2] # "Long detailed explanations"
    /\ LET fieldSamples == getFieldSamples(cardsInfo[1])
       IN \A e \in 1..Len(fieldSamples) : \A s \in 1..Len(fieldSamples[e][2]) :
            Len(fieldSamples[e][2][s]) <= MaxSampleLength

\* the store returned a value of more than 100 characters in a field whose
\* name decides nothing: the field got the generic label
C27_Witness ==
  /\ pc = "done"
  /\ \E c \in 1..Len(cardsInfo[1]) :
       /\ RecHas(cardsInfo[1][c].fields, Notes)
       /\ Len(RecGet(cardsInfo[1][c].fields, Notes)[1]) > LongSampleLength
  /\ MatchedNameRules(Notes) = {}
  /\ RecGet(result[1].fieldAnalysis, Notes) = <<"General content (purpose unclear)">>

\* C29: whenever analyzeDeck completes, at least one record was sampled:
\* the sampleSize of the result is at least 1, at most the number of ids
\* findCards answered with, and the number of ids given to getCardsInfo,
\* for every integer sample size requested, 0 and negative ones included
C29_AtLeastOneSampled ==
  pc = "done" =>
    /\ 1 <= result[1].sampleSize
    /\ result[1].sampleSize <= Len(cardIds[1])
    /\ result[1].sampleSize = Len(storeCalls[2].cards)

\* the same for the calls that ask for a size of at least 1
C29_PositiveRequest ==
  (pc = "done" /\ sampleSize >= 1) =>
    /\ 1 <= result[1].sampleSize
    /\ result[1].sampleSize <= Len(cardIds[1])
    /\ result[1].sampleSize = Len(storeCalls[2].cards)

\* C30: a call-tool request that names none of the six registered tools
\* fails with the code MethodNotFound ('Unknown tool'), and a failure
\* raised while a registered tool executes is reported with the code
\* InternalError ('Tool execution failed')
C30_ErrorCodes ==
  called = "callTool" =>
    /\ args[1] \notin RegisteredTools
         => /\ returned.thrown # <<>>
            /\ returned.thrown[1].code = "MethodNotFound"
            /\ returned.thrown[1].message = "Unknown tool: "
    /\ (args[1] \in RegisteredTools /\ args[2].thrown # <<>>)
         => /\ returned.thrown # <<>>
            /\ returned.thrown[1].code = "InternalError"
            /\ returned.thrown[1].message = "Tool execution failed: "

\* what the handler does: every failure leaves it with the code
\* InternalError, the 'Unknown tool' error being the value interpolated
\* into its message
C30_EveryFailureInternal ==
  called = "callTool" =>
    /\ returned.thrown # <<>> <=> (args[1] \notin RegisteredTools \/ args[2].thrown # <<>>)
    /\ returned.thrown # <<>> =>
         /\ returned.thrown[1].code = "InternalError"
         /\ returned.thrown[1].message = "Tool execution failed: "
    /\ args[1] \notin RegisteredTools =>
         returned.thrown[1].detail
           = <<McpError("MethodNotFound", "Unknown tool: ", <<args[1]>>)>>
    /\ returned.thrown = <<>> => returned = args[2]

(***************************************************************************)
(* Properties of the AnkiMcpServer (checked under ServerSpec)              *)
(***************************************************************************)
\* C15: across any number and any interleaving of initializeUserConfig
\* invocations on one server, also ones started before an earlier one has
\* completed, ConfigurationManager.loadConfig is called only once
C15_LoadedOnce == loadConfigCalls <= 1

\* the invocation takes a step
Steps(t) == tasks'[t] # tasks[t]

\* C16: addSmartCard never sends a note without fields: when applyMapping
\* gives the empty map, addSmartCard fails with the 'No fields were mapped'
\* error and addNote is not called
C16_NoEmptyNote ==
  /\ [](\A n \in 1..Len(addNoteCalls) : Len(Keys(addNoteCalls[n].fields)) > 0)
  /\ [][\A t \in Tasks :
          (/\ Steps(t)
           /\ tasks[t].op = "addSmartCard"
           /\ tasks[t].pc = "initialized"
           /\ applyMapping(userConfig[1].fieldMappings, tasks[t].args.content) = <<>>)
          => /\ tasks'[t].pc = "failed"
             /\ tasks'[t].error = NoFieldsMappedError
             /\ addNoteCalls' = addNoteCalls]_vars

\* a text of white space only under a mapped label: the error, and no note sent
C16_Witness ==
  \E t \in Tasks :
    /\ tasks[t].op = "addSmartCard"
    /\ tasks[t].args.content = << <<"primary", <<" ">> >> >>
    /\ userConfig = <<DefaultConfig>>
    /\ tasks[t].pc = "failed"
    /\ tasks[t].error = NoFieldsMappedError
    /\ addNoteCalls = <<>>

\* an invocation of autoConfigureFromDeck whose confirm is absent or false
Unconfirmed(task) ==
  task.op = "autoConfigureFromDeck" /\ task.args.confirm \in {<<>>, <<FALSE>>}

\* C17: autoConfigureFromDeck without confirm only reports: none of its
\* steps calls saveConfig or createDeck or changes the server's
\* configuration, and it returns the report of the analysis followed by the
\* instruction to run it again with confirm: true
C17_ReportOnly ==
  /\ [][\A t \in Tasks :
          (Steps(t) /\ (Unconfirmed(tasks[t]) \/ Unconfirmed(tasks'[t])))
          => UNCHANGED <<userConfig, saveConfigCalls, createDeckCalls, configFile>>]_vars
  /\ [](\A t \in Tasks :
          (Unconfirmed(tasks[t]) /\ tasks[t].pc = "done")
          => tasks[t].ret = <<generateReport(deckAnalysis(tasks[t].args))
                              \o <<literal(ConfirmInstruction)>> >>)

\* the report is returned on a server that never loaded or saved a configuration
C17_Witness ==
  \E t \in Tasks :
    /\ Unconfirmed(tasks[t])
    /\ tasks[t].pc = "done"
    /\ tasks[t].ret # <<>>
    /\ userConfig = <<>>
    /\ saveConfigCalls = <<>>
    /\ createDeckCalls = <<>>

\* C18: configureAnkiSetup tolerates a failing createDeck: the configuration
\* of the deck, the note type and the given mappings (the mappings held
\* before, when none are given) is still assigned and handed to saveConfig,
\* the text is returned once saveConfig resolves, and the operation fails
\* only if saveConfig does
C18_DeckFailureTolerated ==
  /\ [][\A t \in Tasks :
          (Steps(t) /\ tasks[t].pc = "createDeck" /\ tasks'[t].createDeckFailed)
          => LET held == IF tasks[t].args.fieldMappings # <<>>
                         THEN tasks[t].args.fieldMappings[1]
                         ELSE userConfig[1].fieldMappings
                 config == [preferredDeck |-> tasks[t].args.deck,
                            preferredNoteType |-> tasks[t].args.noteType,
                            fieldMappings |-> held]
             IN /\ tasks'[t].pc = "saveConfig"
                /\ userConfig' = <<config>>
                /\ saveConfigCalls' = Append(saveConfigCalls, config)]_vars
  /\ [](\A t \in Tasks :
          tasks[t].createDeckFailed =>
            /\ tasks[t].pc \in {"saveConfig", "done", "failed"}
            /\ tasks[t].pc = "done" => tasks[t].ret = <<configuredResponse(tasks[t].args)>>
            /\ tasks[t].pc = "failed" => tasks[t].error = SaveConfigError)

\* createDeck failed for a call without mappings: the mappings held before
\* were saved with the new deck and note type, and the text was returned
C18_Witness ==
  \E t \in Tasks :
    /\ tasks[t].op = "configureAnkiSetup"
    /\ tasks[t].createDeckFailed
    /\ tasks[t].args.fieldMappings = <<>>
    /\ tasks[t].pc = "done"
    /\ tasks[t].ret # <<>>
    /\ saveConfigCalls = <<[preferredDeck |-> "TestDeck", preferredNoteType |-> "Cloze",
                            fieldMappings |-> DefaultConfig.fieldMappings]>>
    /\ configFile = <<saveConfigCalls[1]>>

\* the note type of the name among those getNoteTypes answered
NoteTypesNamed(name) ==
  {AnkiNoteTypes[i] : i \in {j \in 1..Len(AnkiNoteTypes) : AnkiNoteTypes[j].name = name}}

\* C23: every configuration configureAnkiSetup hands to saveConfig, called
\* directly or by autoConfigureFromDeck, has a mapping that validateMapping
\* accepts for the note type the configuration names: every target is a
\* field of that note type and no two labels have the same target
C23_SavedMappingValid ==
  \A n \in 1..Len(saveConfigCalls) :
    \E type \in NoteTypesNamed(saveConfigCalls[n].preferredNoteType) :
      validateMapping(type, saveConfigCalls[n].fieldMappings) = TRUE

\* the same for the calls that name the mappings and the note type they fit
C23_GivenMappingSaved ==
  \A t \in Tasks :
    (/\ tasks[t].op = "configureAnkiSetup"
     /\ tasks[t].pc \in {"saveConfig", "done"}
     /\ tasks[t].args.fieldMappings # <<>>)
    => /\ tasks[t].config[1].fieldMappings = tasks[t].args.fieldMappings[1]
       /\ \E type \in NoteTypesNamed(tasks[t].args.noteType) :
            validateMapping(type, tasks[t].config[1].fieldMappings) = TRUE

\* C24: configureAnkiSetup has no partial success: when saveConfig fails,
\* the operation fails and the configuration the server holds in memory is
\* the one it held before; it changes only when the save succeeded
C24_FailedSaveChangesNothing ==
  [][\A t \in Tasks :
       (Steps(t) /\ tasks[t].pc = "saveConfig" /\ tasks'[t].pc = "failed")
       => /\ tasks'[t].error = SaveConfigError
          /\ (\A u \in Tasks \ {t} : tasks[u].op = "none")
               => userConfig' = tasks[t].configBefore]_vars

\* what does hold: the failed save leaves the file as it was and the
\* operation fails with the error of saveConfig
C24_FailedSaveKeepsFile ==
  [][\A t \in Tasks :
       (Steps(t) /\ tasks[t].pc = "saveConfig" /\ tasks'[t].pc = "failed")
       => /\ tasks'[t].error = SaveConfigError
          /\ configFile' = configFile
          /\ userConfig' = userConfig]_vars

\* C28: autoConfigureFromDeck with confirm true saves the dominant note type
\* of the analysis as preferredNoteType, the analysed deck as preferredDeck
\* and the suggested mappings of the analysis as fieldMappings, for every
\* deck content, decks of several note types included
C28_DominantTypeSaved ==
  \A t \in Tasks :
    (tasks[t].op = "autoConfigureFromDeck" /\ tasks[t].pc \in {"saveConfig", "done"}
     /\ tasks[t].config # <<>>)
    => /\ tasks[t].config[1].preferredNoteType = tasks[t].analysis[1].primaryNoteType
       /\ tasks[t].config[1].preferredDeck = tasks[t].args.deck
       /\ tasks[t].config[1].fieldMappings = tasks[t].analysis[1].suggestedMappings
       /\ tasks[t].config[1] \in Range(saveConfigCalls)

\* what is saved: the note type of the first card of the deck
C28_FirstCardTypeSaved ==
  \A t \in Tasks :
    (tasks[t].op = "autoConfigureFromDeck" /\ tasks[t].pc \in {"saveConfig", "done"}
     /\ tasks[t].config # <<>>)
    => /\ tasks[t].config[1].preferredNoteType = deckCards[1].modelName
       /\ tasks[t].config[1].preferredDeck = tasks[t].args.deck
       /\ tasks[t].config[1].fieldMappings = tasks[t].analysis[1].suggestedMappings
       /\ tasks[t].config[1] \in Range(saveConfigCalls)

====
